---- MODULE Spec2Model ----
(***************************************************************************)
(* Verification model of the swath coverage plotter (seamapper/            *)
(* SwathCoverage): the detection dictionary self.det and the operations    *)
(* that load, merge, sort, remove and archive its records                  *)
(* (libs/swath_coverage_lib.py, swath_coverage_plotter.py), the outermost  *)
(* valid sounding search of sortDetectionsCoverage, and the file loops of  *)
(* the two PKL converters with their cancellation checks                   *)
(* (kmall_to_pkl_converter.py, convert_files_to_pickle).                   *)
(*                                                                         *)
(* The plotting functions' pure computations are modelled as well: the    *)
(* record building of sortDetectionsCoverage, the filter mask and the      *)
(* decimation of plot_coverage, and the rate series of plot_data_rate.     *)
(*                                                                         *)
(* The specifications share the variables:                                 *)
(*   Spec         the plotter's detection dictionary life cycle            *)
(*   SpecExtract  the per-ping outermost valid sounding search             *)
(*   SpecExtractFair  the same with the loops running on                   *)
(*   SpecConv     the converters' per-file loops and cancellation          *)
(*   SpecSort     sortDetectionsCoverage applied to a batch of parsed files*)
(*   SpecMask     plot_coverage's filter mask                              *)
(*   SpecDecim    plot_coverage's decimation                               *)
(*   SpecRate     plot_data_rate's rate series                             *)
(*   SpecGui      the converter window's buttons and worker threads        *)
(*   SpecTrend    calc_coverage_trend's depth bins                         *)
(***************************************************************************)
EXTENDS Integers, Sequences, FiniteSets, TLC

VARIABLES
    \* ---- plotter (MainWindow) state ----
    file_list,              \* self.file_list: raw source files in the list widget, in order
    swath_pkl_file_list,    \* self.swath_pkl_file_list: items of the swath PKL list widget
    det,                    \* self.det: detection dictionary, key -> value
    data_new,               \* self.data_new: parsed file data kept between handlers (ordered dict)
    fnames_scanned_params,  \* self.fnames_scanned_params
    fnames_plotted_cov,     \* self.fnames_plotted_cov
    param_scanned,          \* self.param_scanned
    raised,                 \* an exception left a handler uncaught (PyQt6 aborts the application)
    last,                   \* the handler that ran last, with its batch and per-file outcomes
    handled,                \* number of handlers the session has run
    \* ---- sortDetectionsCoverage, one ping ----
    x_pc, x_thr, x_det_int, x_idx_port, x_idx_stbd,
    \* ---- process_data_for_plotting (converter), the same ping ----
    x_y_values,    \* y_reRefPoint_m of the ping's beams
    x_port_idx,    \* port_idx, NoIdx for None
    x_stbd_idx,    \* stbd_idx, NoIdx for None
    \* ---- converters ----
    w_pc,          \* ConversionWorker thread: "idle", "check" (loop head), "converting", "finished"
    w_files,       \* self.input_files
    w_i,           \* loop index i of ConversionWorker.run
    w_cancelled,   \* self.cancelled
    w_started,     \* indices of the files whose conversion was begun
    w_results,     \* outcome of every file that ran to its end, in order
    p_pc,          \* convert_files_to_pickle: "idle", "check", "converting", "finished"
    p_files,       \* source_files
    p_i,           \* loop index i
    p_canceled,    \* progress_dialog.wasCanceled()
    p_started,     \* indices of the files whose conversion was begun
    p_results,     \* outcome of every file that ran to its end, in order
    \* ---- sortDetectionsCoverage, one call ----
    s_pc,          \* "idle", "call", "returned", "raised"
    s_data,        \* argument data: parsed files, keyed 0..n-1
    s_params_only, \* argument params_only
    s_det,         \* the returned det
    \* ---- plot_coverage, filter mask ----
    f_pc,          \* "idle", "call", "masked", "raised"
    f_det,         \* argument det (one entry per ping) and the per-ping reference adjustments
    f_gui,         \* the filter group boxes' check states and limits
    f_filter_idx,  \* filter_idx
    f_log,         \* messages passed to update_log
    \* ---- plot_coverage, decimation ----
    d_pc,          \* "idle", "call", "decimated", "raised"
    d_n_points,    \* len(y_all) after filtering
    d_gui,         \* pt_count_gb check state, max_count_tb and dec_fac_tb
    d_dec_fac,     \* self.dec_fac
    d_idx_new,     \* indices kept (all of them when dec_fac <= 1)
    \* ---- plot_data_rate ----
    r_pc,          \* "idle", "call", "plotted", "returned", "raised"
    r_in,          \* sorted ping times, bytes and the interval thresholds
    r_out,         \* the series computed and the messages logged
    \* ---- converter window (KMALLToPKLConverter) ----
    g_input_files, \* self.input_files
    g_output_dir,  \* self.output_dir
    g_btn,         \* isEnabled() of convert_btn, select_files_btn, select_output_btn, cancel_btn
    g_workers,     \* the ConversionWorker threads started, the last one is self.worker
    g_signals,     \* worker signals queued for the window's thread
    g_aborted,     \* the application was aborted
    \* ---- calc_coverage_trend ----
    t_pc,          \* "idle", "call", "binned", "raised"
    t_z_all,       \* argument z_all
    t_dig          \* z_all_dig

plotter_vars == <<file_list, swath_pkl_file_list, det, data_new, fnames_scanned_params,
                  fnames_plotted_cov, param_scanned, raised, last, handled>>
extract_vars == <<x_pc, x_thr, x_det_int, x_idx_port, x_idx_stbd,
                  x_y_values, x_port_idx, x_stbd_idx>>
worker_vars == <<w_pc, w_files, w_i, w_cancelled, w_started, w_results>>
libconv_vars == <<p_pc, p_files, p_i, p_canceled, p_started, p_results>>
conv_vars == <<worker_vars, libconv_vars>>
sort_vars == <<s_pc, s_data, s_params_only, s_det>>
mask_vars == <<f_pc, f_det, f_gui, f_filter_idx, f_log>>
decim_vars == <<d_pc, d_n_points, d_gui, d_dec_fac, d_idx_new>>
rate_vars == <<r_pc, r_in, r_out>>
analysis_vars == <<sort_vars, mask_vars, decim_vars, rate_vars>>
gui_vars == <<g_input_files, g_output_dir, g_btn, g_workers, g_signals, g_aborted>>
trend_vars == <<t_pc, t_z_all, t_dig>>
app_vars == <<gui_vars, trend_vars>>
vars == <<plotter_vars, extract_vars, conv_vars, analysis_vars, app_vars>>

(***************************************************************************)
(* Bounds                                                                  *)
(***************************************************************************)
MaxBeams == 4        \* beams per ping in SpecExtract
MaxRows == 6         \* longest detection dictionary column explored by Spec
MaxPklItems == 2     \* items in the swath PKL list widget
MaxDataNew == 3      \* entries of self.data_new
MaxHandled == 4      \* handlers run in one session of Spec
MaxConvFiles == 3    \* files per conversion batch

Range(s) == {s[i] : i \in DOMAIN s}

(***************************************************************************)
(* sortDetectionsCoverage: outermost valid soundings of one ping           *)
(***************************************************************************)
\* det_int_threshold = [127, 0][key_idx]
ThresholdAll == 127
ThresholdKmall == 0
det_int_threshold(ftype) == IF ftype = "kmall" THEN ThresholdKmall ELSE ThresholdAll

\* detection integers a datagram can carry (uint8); 0 and 1 straddle the .kmall
\* threshold, 127 and 128 the .all threshold
DetCodes == {0, 1, 127, 128}

InvalidOffByOne(code, thr) == code >= thr
\* the loop test "det_int[idx] > det_int_threshold"
Invalid(code, thr) == code > thr

\* the port loop without its stop at the last beam
PortContinuesPastEnd(d, thr, idx) == idx < Len(d) /\ Invalid(d[idx + 1], thr)
\* while det_int[idx_port] > det_int_threshold and idx_port < len(det_int) - 1
PortContinues(d, thr, idx) == Invalid(d[idx + 1], thr) /\ idx < Len(d) - 1
\* while det_int[idx_stbd] > det_int_threshold and idx_stbd > 0
StbdContinues(d, thr, idx) == Invalid(d[idx + 1], thr) /\ idx > 0

RECURSIVE ScanPort(_, _, _)
ScanPort(d, thr, idx) == IF PortContinues(d, thr, idx) THEN ScanPort(d, thr, idx + 1) ELSE idx
RECURSIVE ScanStbd(_, _, _)
ScanStbd(d, thr, idx) == IF StbdContinues(d, thr, idx) THEN ScanStbd(d, thr, idx - 1) ELSE idx

\* idx_port = 0 ... / idx_stbd = len(det_int) - 1 ...
IdxPort(d, thr) == ScanPort(d, thr, 0)
IdxStbd(d, thr) == ScanStbd(d, thr, Len(d) - 1)

BeamSeqs == UNION {[1..n -> DetCodes] : n \in 1..MaxBeams}

\* across-track distances of n beams, port (negative) to starboard: a swath centred
\* on the nadir and a swath that lies on the port side altogether
YProfiles(n) == {[i \in 1..n |-> 2 * i - n - 1], [i \in 1..n |-> i - n - 1]}

\* port_idx = None / stbd_idx = None
NoIdx == 0 - 1

\* "for i, y in enumerate(y_values): if y < 0: if port_idx is None or
\* y < y_values[port_idx]: port_idx = i", from beam i on (0-based)
RECURSIVE PortLoop(_, _, _)
PortLoop(y_values, i, port_idx) ==
    IF i >= Len(y_values) THEN port_idx
    ELSE PortLoop(y_values, i + 1,
                  IF y_values[i + 1] < 0
                     /\ (port_idx = NoIdx \/ y_values[i + 1] < y_values[port_idx + 1])
                  THEN i ELSE port_idx)

\* "for i, y in enumerate(y_values): if y > 0: if stbd_idx is None or
\* y > y_values[stbd_idx]: stbd_idx = i"
RECURSIVE StbdLoop(_, _, _)
StbdLoop(y_values, i, stbd_idx) ==
    IF i >= Len(y_values) THEN stbd_idx
    ELSE StbdLoop(y_values, i + 1,
                  IF y_values[i + 1] > 0
                     /\ (stbd_idx = NoIdx \/ y_values[i + 1] > y_values[stbd_idx + 1])
                  THEN i ELSE stbd_idx)

InitExtractVars ==
    /\ x_pc = "port"
    /\ x_thr \in {ThresholdAll, ThresholdKmall}
    /\ x_det_int \in BeamSeqs
    /\ x_idx_port = 0
    /\ x_idx_stbd = Len(x_det_int) - 1
    /\ x_y_values \in YProfiles(Len(x_det_int))
    /\ x_port_idx = NoIdx
    /\ x_stbd_idx = NoIdx

IdleExtractVars ==
    /\ x_pc = "idle"
    /\ x_thr = ThresholdAll
    /\ x_det_int = <<0>>
    /\ x_idx_port = 0
    /\ x_idx_stbd = 0
    /\ x_y_values = <<0>>
    /\ x_port_idx = NoIdx
    /\ x_stbd_idx = NoIdx

\* idx_port = idx_port + 1
PortStep ==
    /\ x_pc = "port"
    /\ PortContinues(x_det_int, x_thr, x_idx_port)
    /\ x_idx_port' = x_idx_port + 1
    /\ UNCHANGED <<x_pc, x_thr, x_det_int, x_idx_stbd, x_y_values, x_port_idx, x_stbd_idx>>

PortDone ==
    /\ x_pc = "port"
    /\ ~PortContinues(x_det_int, x_thr, x_idx_port)
    /\ x_pc' = "stbd"
    /\ UNCHANGED <<x_thr, x_det_int, x_idx_port, x_idx_stbd, x_y_values, x_port_idx, x_stbd_idx>>

\* idx_stbd = idx_stbd - 1
StbdStep ==
    /\ x_pc = "stbd"
    /\ StbdContinues(x_det_int, x_thr, x_idx_stbd)
    /\ x_idx_stbd' = x_idx_stbd - 1
    /\ UNCHANGED <<x_pc, x_thr, x_det_int, x_idx_port, x_y_values, x_port_idx, x_stbd_idx>>

\* the appends of the values at idx_port and idx_stbd
StbdDone ==
    /\ x_pc = "stbd"
    /\ ~StbdContinues(x_det_int, x_thr, x_idx_stbd)
    /\ x_pc' = "done"
    /\ UNCHANGED <<x_thr, x_det_int, x_idx_port, x_idx_stbd, x_y_values, x_port_idx, x_stbd_idx>>

\* process_data_for_plotting, the same ping in the standalone converter: the two
\* loops over y_values
ProcessDataForPlotting ==
    /\ x_pc = "done"
    /\ x_port_idx' = PortLoop(x_y_values, 0, NoIdx)
    /\ x_stbd_idx' = StbdLoop(x_y_values, 0, NoIdx)
    /\ x_pc' = "converted"
    /\ UNCHANGED <<x_thr, x_det_int, x_idx_port, x_idx_stbd, x_y_values>>

NextExtract ==
    \/ PortStep /\ UNCHANGED <<app_vars, plotter_vars, conv_vars, analysis_vars>>
    \/ PortDone /\ UNCHANGED <<app_vars, plotter_vars, conv_vars, analysis_vars>>
    \/ StbdStep /\ UNCHANGED <<app_vars, plotter_vars, conv_vars, analysis_vars>>
    \/ StbdDone /\ UNCHANGED <<app_vars, plotter_vars, conv_vars, analysis_vars>>
    \/ ProcessDataForPlotting /\ UNCHANGED <<app_vars, plotter_vars, conv_vars, analysis_vars>>

(***************************************************************************)
(* kmall_to_pkl_converter.py: ConversionWorker.run and cancel              *)
(***************************************************************************)
ConvBatches == {[i \in 1..n |-> i] : n \in 1..MaxConvFiles}

\* results['skipped'], results['converted'], results['failed'] (convert_single_file
\* returned False) and the except branch of the per-file try
WorkerOutcomes == {"skipped", "converted", "failed", "error"}

IdleWorkerVars ==
    /\ w_pc = "idle"
    /\ w_files = <<>>
    /\ w_i = 0
    /\ w_cancelled = FALSE
    /\ w_started = {}
    /\ w_results = <<>>

\* KMALLToPKLConverter.start_conversion: ConversionWorker(...) and worker.start();
\* reset_ui enables the Start button again when a conversion has finished.  The
\* converter is an application of its own: a session runs it or the plotter's loop.
StartConversion ==
    /\ w_pc \in {"idle", "finished"}
    /\ p_pc = "idle"
    /\ \E files \in ConvBatches :
        /\ w_files' = files
        /\ w_i' = 0
        /\ w_cancelled' = FALSE
        /\ w_started' = {}
        /\ w_results' = <<>>
        /\ w_pc' = "check"

BreakOnCancelNever(flag) == FALSE
\* "if self.cancelled: break" at the head of the file loop
BreakOnCancel(flag) == flag

\* head of "for i, input_file in enumerate(self.input_files)"
WorkerLoopHead ==
    /\ w_pc = "check"
    /\ IF w_i >= Len(w_files) \/ BreakOnCancel(w_cancelled)
       THEN /\ w_pc' = "finished"     \* conversion_complete.emit(results)
            /\ UNCHANGED <<w_started>>
       ELSE /\ w_pc' = "converting"
            /\ w_started' = w_started \cup {w_i}
    /\ UNCHANGED <<w_files, w_i, w_cancelled, w_results>>

\* body of the loop for one file: up-to-date check, convert_single_file, tallies
WorkerConvertFile ==
    /\ w_pc = "converting"
    /\ \E o \in WorkerOutcomes : w_results' = Append(w_results, o)
    /\ w_i' = w_i + 1
    /\ w_pc' = "check"
    /\ UNCHANGED <<w_files, w_cancelled, w_started>>

\* ConversionWorker.cancel, called by cancel_conversion while worker.isRunning()
WorkerCancel ==
    /\ w_pc \in {"check", "converting"}
    /\ w_cancelled' = TRUE
    /\ UNCHANGED <<w_pc, w_files, w_i, w_started, w_results>>

(***************************************************************************)
(* swath_coverage_lib.py: convert_files_to_pickle                          *)
(***************************************************************************)
\* skipped (pickle is newer), failed (parser raised), converted, error (outer except
\* of the per-file try)
LibOutcomes == {"skipped", "failed", "converted", "error"}

IdleLibConvVars ==
    /\ p_pc = "idle"
    /\ p_files = <<>>
    /\ p_i = 0
    /\ p_canceled = FALSE
    /\ p_started = {}
    /\ p_results = <<>>

\* convert_files_to_pickle up to the creation of the progress dialog
ConvertFilesToPickle ==
    /\ p_pc \in {"idle", "finished"}
    /\ w_pc = "idle"
    /\ \E files \in ConvBatches :
        /\ p_files' = files
        /\ p_i' = 0
        /\ p_canceled' = FALSE
        /\ p_started' = {}
        /\ p_results' = <<>>
        /\ p_pc' = "check"

\* "if progress_dialog.wasCanceled(): break" at the head of the file loop
LibLoopHead ==
    /\ p_pc = "check"
    /\ IF p_i >= Len(p_files) \/ p_canceled
       THEN /\ p_pc' = "finished"
            /\ UNCHANGED <<p_started>>
       ELSE /\ p_pc' = "converting"
            /\ p_started' = p_started \cup {p_i}
    /\ UNCHANGED <<p_files, p_i, p_canceled, p_results>>

\* body of the loop for one file
LibConvertFile ==
    /\ p_pc = "converting"
    /\ \E o \in LibOutcomes : p_results' = Append(p_results, o)
    /\ p_i' = p_i + 1
    /\ p_pc' = "check"
    /\ UNCHANGED <<p_files, p_canceled, p_started>>

\* the user presses Cancel on the progress dialog; the click is delivered by
\* setValue / processEvents / the log calls, which run inside the loop
LibCancel ==
    /\ p_pc \in {"check", "converting"}
    /\ p_canceled' = TRUE
    /\ UNCHANGED <<p_pc, p_files, p_i, p_started, p_results>>

NextConv ==
    \/ StartConversion /\ UNCHANGED <<app_vars, plotter_vars, extract_vars, libconv_vars, analysis_vars>>
    \/ WorkerLoopHead /\ UNCHANGED <<app_vars, plotter_vars, extract_vars, libconv_vars, analysis_vars>>
    \/ WorkerConvertFile /\ UNCHANGED <<app_vars, plotter_vars, extract_vars, libconv_vars, analysis_vars>>
    \/ WorkerCancel /\ UNCHANGED <<app_vars, plotter_vars, extract_vars, libconv_vars, analysis_vars>>
    \/ ConvertFilesToPickle /\ UNCHANGED <<app_vars, plotter_vars, extract_vars, worker_vars, analysis_vars>>
    \/ LibLoopHead /\ UNCHANGED <<app_vars, plotter_vars, extract_vars, worker_vars, analysis_vars>>
    \/ LibConvertFile /\ UNCHANGED <<app_vars, plotter_vars, extract_vars, worker_vars, analysis_vars>>
    \/ LibCancel /\ UNCHANGED <<app_vars, plotter_vars, extract_vars, worker_vars, analysis_vars>>

(***************************************************************************)
(* Source files of the model: two raw files, two swath PKL files made by   *)
(* the converter from two other .kmall files.  b.kmall and c.kmall hold a  *)
(* ping of the same time stamp.                                            *)
(***************************************************************************)
RawFiles == {"a.all", "b.kmall"}
PklPaths == {"pkl/c.kmall.pkl", "pkl/d.kmall.pkl"}

\* os.path.basename(pickle_file)
Basename(path) ==
    CASE path = "pkl/c.kmall.pkl" -> "c.kmall.pkl"
      [] path = "pkl/d.kmall.pkl" -> "d.kmall.pkl"
      [] OTHER -> path

\* data['fname'] stored in a swath PKL: the name of the file it was converted from
PklSourceName(path) ==
    CASE Basename(path) = "c.kmall.pkl" -> "c.kmall"
      [] Basename(path) = "d.kmall.pkl" -> "d.kmall"
      [] OTHER -> Basename(path)

\* fname.rsplit('.', 1)[-1]
FType(fname) ==
    CASE fname \in {"a.all"} -> "all"
      [] fname \in {"b.kmall", "c.kmall", "d.kmall"} -> "kmall"
      [] OTHER -> "pkl"

\* data[f]['XYZ'] (with the ping time of XYZ / HDR): one record per ping
PingsOf(fname) ==
    CASE fname = "a.all" ->
            << [t |-> 1, det_int |-> <<128, 0, 127, 128>>, y |-> <<-4, -3, 3, 4>>],
               [t |-> 3, det_int |-> <<0, 0, 0, 0>>, y |-> <<-6, -2, 2, 6>>] >>
      [] fname = "b.kmall" ->
            << [t |-> 2, det_int |-> <<1, 0, 0, 1>>, y |-> <<-5, -4, 4, 5>>] >>
      [] fname = "c.kmall" ->
            << [t |-> 2, det_int |-> <<0, 0, 0, 0>>, y |-> <<-2, -1, 1, 2>>] >>
      [] fname = "d.kmall" ->
            << [t |-> 0, det_int |-> <<0, 0, 1, 1>>, y |-> <<-7, -1, 1, 7>>] >>
      [] OTHER -> << >>

\* order of Python's str comparison on the strings that columns can hold
StrRank(s) ==
    CASE s = "_archive_metadata" -> 0
      [] s = "a.all" -> 1
      [] s = "archive_time" -> 2
      [] s = "b.kmall" -> 3
      [] s = "c.kmall" -> 4
      [] s = "compressed" -> 5
      [] s = "d.kmall" -> 6
      [] s = "version" -> 7
      [] OTHER -> 8

(***************************************************************************)
(* The detection dictionary                                                *)
(***************************************************************************)
\* det_key_list (the keys the model follows), in dict order
det_key_list == <<"fname", "datetime", "y_port", "y_stbd">>
\* keys archive_data stores in the dictionary it pickles
archive_key_list == <<"_archive_metadata">>
\* the dict object stored under '_archive_metadata', as an array element
ArchiveObject == "dict"
\* iteration order of the keys of det_archive['_archive_metadata']
ArchiveMetadata == <<"archive_time", "version", "compressed">>

DetKeys == Range(det_key_list)
ArchiveKeys == Range(archive_key_list)

\* a value of the dictionary: a list (is_list) with its elements, or another
\* object with the elements that iterating over it yields
ListValue(elems) == [is_list |-> TRUE, v |-> elems]
ObjectValue(elems) == [is_list |-> FALSE, v |-> elems]

\* self.det = {}
EmptyDet == [k \in {} |-> ListValue(<<>>)]

\* keys of a dictionary in insertion order: det_key_list, then what archive_data added
KeyOrder(d) == SelectSeq(det_key_list \o archive_key_list, LAMBDA k : k \in DOMAIN d)

\* one file's parsed data under its key of the data dict: data[f]['fname'], whether
\* data[f]['fsize'] is set, whether the install text holds the TRAI_RX1 / TRAI_TX1
\* entries sortDetectionsCoverage splits at, and whether the reader was run with
\* parse_params_only
FileData(key, fname, fsize, ip, scan) ==
    [key |-> key, fname |-> fname, fsize |-> fsize, ip |-> ip, scan |-> scan]

\* the record of a ping if the validity scan ran whatever params_only says
DetectionRecordScanned(fname, p, params_only) ==
    LET ping == PingsOf(fname)[p]
        thr == det_int_threshold(FType(fname))
    IN [fname |-> fname,
        datetime |-> ping.t,
        y_port |-> ping.y[IdxPort(ping.det_int, thr) + 1],
        y_stbd |-> ping.y[IdxStbd(ping.det_int, thr) + 1]]
\* the record sortDetectionsCoverage appends for ping p of one file
DetectionRecord(fname, p, params_only) ==
    LET ping == PingsOf(fname)[p]
        thr == det_int_threshold(FType(fname))
    IN [fname |-> fname,
        datetime |-> ping.t,
        y_port |-> IF params_only THEN 0 ELSE ping.y[IdxPort(ping.det_int, thr) + 1],
        y_stbd |-> IF params_only THEN 0 ELSE ping.y[IdxStbd(ping.det_int, thr) + 1]]

FileRecords(fname, params_only) ==
    [p \in 1..Len(PingsOf(fname)) |-> DetectionRecord(fname, p, params_only)]

RECURSIVE AllRecords(_, _)
AllRecords(data, params_only) ==
    IF data = <<>> THEN <<>>
    ELSE FileRecords(Head(data).fname, params_only) \o AllRecords(Tail(data), params_only)

\* det['fsize'].append(data[f]['fsize']) raises KeyError, and
\* ip_text.split('TRAI_TX1')[1] raises IndexError (.kmall), for the first ping of a file
SortRaises(data) ==
    \E i \in DOMAIN data :
        /\ Len(PingsOf(data[i].fname)) > 0
        /\ \/ ~data[i].fsize
           \/ FType(data[i].fname) = "kmall" /\ ~data[i].ip

\* data[f]['XYZ'][p][det_int_key] with params_only=False on data that the reader
\* parsed with parse_params_only: a KeyError unless that parse kept the detection
\* keys (scan_keys; the readers are not part of this repository)
SortRaisesOnScan(data, scan_keys) ==
    \/ SortRaises(data)
    \/ ~scan_keys /\ \E i \in DOMAIN data : data[i].scan /\ Len(PingsOf(data[i].fname)) > 0

\* sortDetectionsCoverage(self, data, params_only): det = {k: [] for k in det_key_list}
\* and one append per key and ping
sortDetectionsCoverage(data, params_only) ==
    LET recs == AllRecords(data, params_only)
    IN [k \in DetKeys |-> ListValue([i \in 1..Len(recs) |-> recs[i][k]])]

\* for f in range(len(data)): data[f] on a dict needs the keys 0 .. len-1
IntKey(n) == <<"0", "1", "2", "3", "4", "5", "6", "7", "8", "9">>[n + 1]
IntKeyed(data) == \A i \in DOMAIN data : data[i].key = IntKey(i - 1)

\* len(self.det)
DetLen(d) == Cardinality(DOMAIN d)

\* self.det[key].extend(value) for key, value in det_new.items()
ExtendDet(d, det_new) ==
    [k \in DOMAIN d |-> IF k \in DOMAIN det_new
                        THEN ListValue(d[k].v \o det_new[k].v)
                        ELSE d[k]]

\* "if key in self.det: self.det[key].extend(value) else: self.det[key] = value"
ExtendOrSetDet(d, det_new) ==
    [k \in DOMAIN d \cup DOMAIN det_new |->
        IF k \in DOMAIN d /\ k \in DOMAIN det_new THEN ListValue(d[k].v \o det_new[k].v)
        ELSE IF k \in DOMAIN d THEN d[k] ELSE det_new[k]]

\* "if len(self.det) == 0: self.det = det_new else: append"
MergeDet(d, det_new) == IF DetLen(d) = 0 THEN det_new ELSE ExtendDet(d, det_new)
MergeOrSetDet(d, det_new) == IF DetLen(d) = 0 THEN det_new ELSE ExtendOrSetDet(d, det_new)

(***************************************************************************)
(* sort_det_time, remove_data                                              *)
(***************************************************************************)
Min(S) == CHOOSE x \in S : \A y \in S : x <= y

\* the order sorted() puts the second members of (datetime, value) tuples in
SortRank(k, x) == IF k \in {"fname", "_archive_metadata"} THEN StrRank(x) ELSE x

\* tuple comparison (datetime, value) <= (datetime, value)
PairLE(k, p, q) == p[1] < q[1] \/ (p[1] = q[1] /\ SortRank(k, p[2]) <= SortRank(k, q[2]))

\* zip(datetime_orig, self.det[k]): as long as the shorter of the two
Zip(dts, xs) ==
    [i \in 1..(IF Len(dts) <= Len(xs) THEN Len(dts) ELSE Len(xs)) |-> <<dts[i], xs[i]>>]

RECURSIVE InsertPair(_, _, _)
InsertPair(k, p, s) ==
    IF s = <<>> THEN <<p>>
    ELSE IF PairLE(k, p, Head(s)) THEN <<p>> \o s
    ELSE <<Head(s)>> \o InsertPair(k, p, Tail(s))

\* sorted(pairs)
RECURSIVE SortedPairs(_, _)
SortedPairs(k, ps) ==
    IF ps = <<>> THEN <<>> ELSE InsertPair(k, Head(ps), SortedPairs(k, Tail(ps)))

\* self.det[k] = [x for _, x in sorted(zip(datetime_orig, self.det[k]))] for every key
sort_det_time(d) ==
    LET datetime_orig == d["datetime"].v
    IN [k \in DOMAIN d |->
            LET sorted == SortedPairs(k, Zip(datetime_orig, d[k].v))
            IN ListValue([i \in 1..Len(sorted) |-> sorted[i][2]])]

\* np.asarray(value).ravel(): the elements of a list, one element for another object
ArrayOf(val) == IF val.is_list THEN val.v ELSE <<ArchiveObject>>

RECURSIVE DropAt(_, _, _)
DropAt(s, idx, i) ==
    IF i > Len(s) THEN <<>>
    ELSE (IF i \in idx THEN <<>> ELSE <<s[i]>>) \o DropAt(s, idx, i + 1)

\* np.delete(value, i): IndexError when an index is out of bounds for the array
NpDeleteRaises(val, idx) == \E j \in idx : j > Len(ArrayOf(val))
\* np.delete(value, i).tolist()
NpDelete(val, idx) == ListValue(DropAt(ArrayOf(val), idx, 1))

\* body of remove_data for one file name: the keys are rewritten in dict order until
\* one raises; the except of remove_data then leaves the rest as they are
RemoveFile(d, fname) ==
    IF DetLen(d) = 0 \/ "fname" \notin DOMAIN d THEN d
    ELSE LET i == {j \in 1..Len(d["fname"].v) : d["fname"].v[j] = fname}
             order == KeyOrder(d)
             bad == {p \in 1..Len(order) : NpDeleteRaises(d[order[p]], i)}
             stop == IF bad = {} THEN Len(order) + 1 ELSE Min(bad)
         IN [k \in DOMAIN d |->
                IF \E p \in 1..(stop - 1) : order[p] = k THEN NpDelete(d[k], i) ELSE d[k]]

\* remove_data(self, removed_files)
RECURSIVE remove_data(_, _)
remove_data(d, removed_files) ==
    IF removed_files = <<>> THEN d
    ELSE remove_data(RemoveFile(d, Head(removed_files)), Tail(removed_files))

\* number of records of the table that carry the file name
Count(d, fname) ==
    IF "fname" \in DOMAIN d
    THEN Cardinality({j \in 1..Len(d["fname"].v) : d["fname"].v[j] = fname})
    ELSE 0

\* length of the longest value of the dictionary
MaxColumn(d) ==
    IF DOMAIN d = {} THEN 0
    ELSE CHOOSE n \in {Len(d[k].v) : k \in DOMAIN d} : \A k \in DOMAIN d : Len(d[k].v) <= n

\* data[key] = entry on an insertion-ordered dict
DictSet(data, key, entry) ==
    IF \E i \in DOMAIN data : data[i].key = key
    THEN [i \in DOMAIN data |-> IF data[i].key = key THEN entry ELSE data[i]]
    ELSE Append(data, entry)

(***************************************************************************)
(* The plotter's handlers                                                  *)
(***************************************************************************)
LastOp(op, params_only, files, outcome) ==
    [op |-> op, params_only |-> params_only, files |-> files, outcome |-> outcome]

InitPlotterVars ==
    /\ file_list = <<>>
    /\ swath_pkl_file_list = <<>>
    /\ det = EmptyDet
    /\ data_new = <<>>
    /\ fnames_scanned_params = {}
    /\ fnames_plotted_cov = {}
    /\ param_scanned = FALSE
    /\ raised = FALSE
    /\ last = LastOp("init", FALSE, <<>>, <<>>)
    /\ handled = 0

\* add_cov_files / update_file_list: a file is added only if not already listed
AddCovFiles ==
    /\ ~raised
    /\ \E f \in RawFiles \ Range(file_list) :
        /\ file_list' = Append(file_list, f)
        /\ last' = LastOp("add_cov_files", FALSE, <<f>>, <<>>)
    /\ UNCHANGED <<swath_pkl_file_list, det, data_new, fnames_scanned_params,
                   fnames_plotted_cov, param_scanned, raised>>

\* remove_cov_files(clear_all): remove_files, then the reset or remove_data, then
\* update_show_data_checks_coverage and refresh_plot
RemoveCovFiles ==
    /\ ~raised
    /\ \E clear_all \in BOOLEAN, selected \in SUBSET Range(file_list) :
        /\ clear_all => selected = {}
        /\ LET removed_files == IF clear_all THEN file_list
                                ELSE SelectSeq(file_list, LAMBDA f : f \in selected)
               filenames == SelectSeq(file_list, LAMBDA f : f \notin Range(removed_files))
           IN /\ file_list' = filenames
              /\ IF filenames = <<>>
                 THEN /\ det' = EmptyDet
                      /\ fnames_scanned_params' = {}
                      /\ fnames_plotted_cov' = {}
                 ELSE /\ det' = remove_data(det, removed_files)
                      /\ fnames_scanned_params' = fnames_scanned_params \ Range(removed_files)
                      /\ fnames_plotted_cov' = fnames_plotted_cov \ Range(removed_files)
              /\ last' = LastOp("remove_cov_files", FALSE, removed_files, <<>>)
    /\ UNCHANGED <<swath_pkl_file_list, data_new, param_scanned, raised>>

\* what can happen to one file in the per-file try of calc_coverage:
\*   ok          parsed and recorded in the tracking lists
\*   parse_fail  the reader raised: data_new[i] is not assigned
\*   post_fail   data_new[i] was assigned and a later statement of the try raised
\*               (the .kmall ping byte bookkeeping): no fsize, i not incremented
\*   bad_ip      parsed and recorded; the install text has no TRAI_TX1 entry
ParseOutcomes(fname) ==
    IF FType(fname) = "kmall" THEN {"ok", "parse_fail", "post_fail", "bad_ip"}
    ELSE {"ok", "parse_fail"}

Recorded(o) == o \in {"ok", "bad_ip"}

\* the file loop of calc_coverage from file f on, i files having been parsed
RECURSIVE ParseLoop(_, _, _, _, _, _)
ParseLoop(fnames_new, outcome, params_only, f, i, data) ==
    IF f > Len(fnames_new) THEN data
    ELSE LET o == outcome[f]
             entry == FileData(IntKey(i), fnames_new[f], o # "post_fail", o # "bad_ip",
                               params_only)
         IN IF o = "parse_fail"
            THEN ParseLoop(fnames_new, outcome, params_only, f + 1, i, data)
            ELSE ParseLoop(fnames_new, outcome, params_only, f + 1,
                           IF Recorded(o) THEN i + 1 ELSE i,
                           DictSet(data, IntKey(i), entry))

\* calc_coverage(self, params_only)
CalcCoverage ==
    /\ ~raised
    /\ Len(file_list) > 0 \/ DetLen(det) > 0      \* update_button_states
    /\ \E params_only \in BOOLEAN :
        LET det0 == IF "fname" \in DOMAIN det THEN det ELSE EmptyDet
            fnames_old == IF params_only THEN fnames_scanned_params ELSE fnames_plotted_cov
            fnames_new == SelectSeq(file_list, LAMBDA f : f \notin fnames_old)
            fnames_del == SelectSeq(fnames_new, LAMBDA f : f \in fnames_scanned_params)
            det1 == IF params_only THEN det0 ELSE remove_data(det0, fnames_del)
        IN IF Len(fnames_new) = 0 /\ ~param_scanned
           THEN /\ det' = det1
                /\ last' = LastOp("calc_coverage", params_only, <<>>, <<>>)
                /\ UNCHANGED <<data_new, fnames_scanned_params, fnames_plotted_cov,
                               param_scanned, raised>>
           ELSE \E outcome \in [1..Len(fnames_new) -> {"ok", "parse_fail", "post_fail", "bad_ip"}] :
                /\ \A f \in 1..Len(fnames_new) : outcome[f] \in ParseOutcomes(fnames_new[f])
                /\ LET data == ParseLoop(fnames_new, outcome, params_only, 1, 0, <<>>)
                       parsed == {fnames_new[f] : f \in {g \in 1..Len(fnames_new) :
                                                            Recorded(outcome[g])}}
                       det_new == sortDetectionsCoverage(data, params_only)
                   IN /\ param_scanned' = params_only
                      /\ fnames_scanned_params' = fnames_scanned_params \cup parsed
                      /\ fnames_plotted_cov' = IF params_only THEN fnames_plotted_cov
                                               ELSE fnames_plotted_cov \cup parsed
                      /\ data_new' = data
                      /\ IF SortRaises(data)
                         THEN /\ det' = det1
                              /\ raised' = TRUE
                         ELSE /\ MaxColumn(det1) + Len(det_new["fname"].v) <= MaxRows
                              /\ det' = sort_det_time(MergeDet(det1, det_new))
                              /\ raised' = FALSE
                      /\ last' = LastOp("calc_coverage", params_only, fnames_new, outcome)
    /\ UNCHANGED <<file_list, swath_pkl_file_list>>

(***************************************************************************)
(* Swath PKL handlers                                                      *)
(***************************************************************************)
\* the files a dialog can return, in directory order
PklOrder == <<"pkl/c.kmall.pkl", "pkl/d.kmall.pkl">>
PklBatches == {SelectSeq(PklOrder, LAMBDA q : q \in S) : S \in SUBSET PklPaths \ {{}}}

\* load_pickle_file returns the data ("ok") or raises ("load_fail")
PklOutcomes == {"ok", "load_fail"}

\* the name under which the records of a file of a batch appear in the table
SourceName(f) == IF f \in PklPaths THEN PklSourceName(f) ELSE f

\* the file loop of load_swath_pkl: every file is loaded in a try of its own
RECURSIVE PklLoop(_, _, _, _)
PklLoop(pickle_files, outcome, i, st) ==
    IF i > Len(pickle_files) THEN st
    ELSE IF outcome[i] = "load_fail" THEN PklLoop(pickle_files, outcome, i + 1, st)
    ELSE LET data_key == IntKey(Len(st.data))
             entry == FileData(data_key, PklSourceName(pickle_files[i]), TRUE, TRUE, FALSE)
         IN PklLoop(pickle_files, outcome, i + 1,
                    [items |-> Append(st.items, Basename(pickle_files[i])),
                     data |-> DictSet(st.data, data_key, entry)])

\* load_swath_pkl(self), the dialog having been accepted
LoadSwathPkl ==
    /\ ~raised
    /\ \E pickle_files \in PklBatches, scan_keys \in BOOLEAN :
       \E outcome \in [1..Len(pickle_files) -> PklOutcomes] :
        LET st == PklLoop(pickle_files, outcome, 1,
                          [items |-> swath_pkl_file_list, data |-> data_new])
            successful_files == Cardinality({i \in 1..Len(pickle_files) : outcome[i] = "ok"})
            det_all == sortDetectionsCoverage(st.data, FALSE)
        IN /\ Len(st.items) <= MaxPklItems
           /\ Len(st.data) <= MaxDataNew
           /\ scan_keys \/ \E i \in DOMAIN st.data : st.data[i].scan
           /\ swath_pkl_file_list' = st.items
           /\ data_new' = st.data
           /\ IF successful_files = 0 \/ SortRaisesOnScan(st.data, scan_keys)
              THEN det' = det                   \* nothing to process, or the outer except
              ELSE IF ~IntKeyed(st.data)
              THEN det' = det_all               \* self.data_new[f] raised KeyError
              ELSE /\ 2 * Len(det_all["fname"].v) <= MaxRows
                   /\ det' = MergeOrSetDet(det_all, det_all)
           /\ last' = LastOp("load_swath_pkl", FALSE, pickle_files, outcome)
    /\ UNCHANGED <<file_list, fnames_scanned_params, fnames_plotted_cov, param_scanned, raised>>

\* the file loop of _process_pkl_files_directly: load_pickle_file is not in a try of
\* its own, so the first file that fails ends the loop and the handler
RECURSIVE DirectLoop(_, _, _, _)
DirectLoop(pkl_files, outcome, i, data) ==
    IF i > Len(pkl_files) THEN [data |-> data, failed |-> FALSE]
    ELSE IF outcome[i] = "load_fail" THEN [data |-> data, failed |-> TRUE]
    ELSE LET filename == Basename(pkl_files[i])
             entry == FileData(filename, PklSourceName(pkl_files[i]), TRUE, TRUE, FALSE)
         IN DirectLoop(pkl_files, outcome, i + 1, DictSet(data, filename, entry))

\* "self.data_new = {}; for i, data in enumerate(interpreted_data):
\*  self.data_new[data['fname']] = data"
RECURSIVE Rekey(_, _)
Rekey(data_list, acc) ==
    IF data_list = <<>> THEN acc
    ELSE LET e == Head(data_list)
         IN Rekey(Tail(data_list), DictSet(acc, e.fname, [e EXCEPT !.key = e.fname]))

\* add_pkl_files_from_directory with load_new_pkl_files and
\* _process_pkl_files_directly
AddPklFilesFromDirectory ==
    /\ ~raised
    /\ \E pkl_files \in PklBatches, scan_keys \in BOOLEAN :
        LET newly_added_files == SelectSeq(pkl_files,
                                           LAMBDA q : q \notin Range(swath_pkl_file_list))
        IN \E outcome \in [1..Len(newly_added_files) -> PklOutcomes] :
            LET loaded == DirectLoop(newly_added_files, outcome, 1, data_new)
                interpreted == Rekey(loaded.data, <<>>)
                det_new == sortDetectionsCoverage(interpreted, FALSE)
            IN /\ Len(swath_pkl_file_list) + Len(newly_added_files) <= MaxPklItems
               /\ Len(loaded.data) <= MaxDataNew
               /\ scan_keys \/ \E i \in DOMAIN loaded.data : loaded.data[i].scan
               /\ swath_pkl_file_list' = swath_pkl_file_list \o newly_added_files
               /\ IF newly_added_files = <<>> \/ loaded.failed \/ loaded.data = <<>>
                  THEN /\ data_new' = loaded.data
                       /\ det' = det
                  ELSE /\ data_new' = interpreted
                       /\ IF SortRaisesOnScan(interpreted, scan_keys)
                          THEN det' = det
                          ELSE /\ MaxColumn(det) + Len(det_new["fname"].v) <= MaxRows
                               /\ det' = MergeOrSetDet(det, det_new)
               /\ last' = LastOp("add_pkl_files_from_directory", FALSE, newly_added_files,
                                 outcome)
    /\ UNCHANGED <<file_list, fnames_scanned_params, fnames_plotted_cov, param_scanned, raised>>

\* one pass of the item loop of remove_selected_swath_pkl_files over data_new:
\* the first entry whose 'fname' equals the item text is deleted
DropFirstNamed(data, filename) ==
    LET hits == {i \in DOMAIN data : data[i].fname = filename}
    IN IF hits = {} THEN data
       ELSE [j \in 1..(Len(data) - 1) |-> IF j < Min(hits) THEN data[j] ELSE data[j + 1]]

RECURSIVE DropNamed(_, _)
DropNamed(data, filenames) ==
    IF filenames = <<>> THEN data
    ELSE DropNamed(DropFirstNamed(data, Head(filenames)), Tail(filenames))

\* MainWindow.remove_selected_swath_pkl_files: the items leave the list widget and
\* data_new; self.det is not touched
RemoveSelectedSwathPklFiles ==
    /\ ~raised
    /\ \E selected \in SUBSET (DOMAIN swath_pkl_file_list) \ {{}} :
        LET removed_files == [i \in 1..Cardinality(selected) |->
                                swath_pkl_file_list[
                                    CHOOSE j \in selected :
                                        Cardinality({m \in selected : m < j}) = i - 1]]
        IN /\ swath_pkl_file_list' =
                [i \in 1..(Len(swath_pkl_file_list) - Cardinality(selected)) |->
                    swath_pkl_file_list[
                        CHOOSE j \in DOMAIN swath_pkl_file_list \ selected :
                            Cardinality({m \in DOMAIN swath_pkl_file_list \ selected : m < j})
                                = i - 1]]
           /\ data_new' = DropNamed(data_new, removed_files)
           /\ last' = LastOp("remove_selected_swath_pkl_files", FALSE, removed_files, <<>>)
    /\ UNCHANGED <<file_list, det, fnames_scanned_params, fnames_plotted_cov, param_scanned,
                   raised>>

\* MainWindow.clear_all_swath_pkl_files: the list widget and data_new are emptied
ClearAllSwathPklFiles ==
    /\ ~raised
    /\ Len(swath_pkl_file_list) > 0
    /\ swath_pkl_file_list' = <<>>
    /\ data_new' = <<>>
    /\ last' = LastOp("clear_all_swath_pkl_files", FALSE, swath_pkl_file_list, <<>>)
    /\ UNCHANGED <<file_list, det, fnames_scanned_params, fnames_plotted_cov, param_scanned,
                   raised>>

\* archive_data, an output file having been chosen: det_archive = self.det is the
\* same dict object, so the keys stored in det_archive are stored in self.det
ArchiveData ==
    /\ ~raised
    /\ det' = [k \in DOMAIN det \cup ArchiveKeys |->
                  IF k \in ArchiveKeys THEN ObjectValue(ArchiveMetadata) ELSE det[k]]
    /\ last' = LastOp("archive_data", FALSE, <<>>, <<>>)
    /\ UNCHANGED <<file_list, swath_pkl_file_list, data_new, fnames_scanned_params,
                   fnames_plotted_cov, param_scanned, raised>>

\* refresh_plot with plot_coverage: det['y_port'] and det['y_stbd'] are written only
\* when they are missing and det['x_port'] exists (old archives, never self.det)
RefreshPlot ==
    /\ ~raised
    /\ last' = LastOp("refresh_plot", FALSE, <<>>, <<>>)
    /\ UNCHANGED <<file_list, swath_pkl_file_list, det, data_new, fnames_scanned_params,
                   fnames_plotted_cov, param_scanned, raised>>

(***************************************************************************)
(* sortDetectionsCoverage applied to one batch of parsed files (SpecSort)  *)
(***************************************************************************)
MaxSortFiles == 2    \* files in the batch handed to sortDetectionsCoverage

\* data_new as calc_coverage builds it: data_new[i] for i = 0 .. n-1, each entry the
\* parse of one source file, with or without 'fsize' and a usable install text,
\* parsed in full or with parse_params_only
SortData(c) == [i \in DOMAIN c |-> FileData(IntKey(i - 1), c[i][1], c[i][2], c[i][3], c[i][4])]

SortInputs ==
    {SortData(c) : c \in UNION {[1..n -> (RawFiles \cup {PklSourceName(q) : q \in PklPaths})
                                         \X BOOLEAN \X BOOLEAN \X BOOLEAN]
                                : n \in 0..MaxSortFiles}}

InitSortVars ==
    /\ s_pc = "call"
    /\ s_data \in SortInputs
    /\ s_params_only \in BOOLEAN
    /\ s_det = EmptyDet

IdleSortVars ==
    /\ s_pc = "idle"
    /\ s_data = <<>>
    /\ s_params_only = FALSE
    /\ s_det = EmptyDet

\* det_new = sortDetectionsCoverage(self, data_new, params_only=...)
SortDetections ==
    /\ s_pc = "call"
    /\ \E scan_keys \in BOOLEAN :
         LET raises == IF s_params_only THEN SortRaises(s_data)
                       ELSE SortRaisesOnScan(s_data, scan_keys)
         IN IF raises
            THEN s_pc' = "raised" /\ UNCHANGED s_det
            ELSE s_pc' = "returned" /\ s_det' = sortDetectionsCoverage(s_data, s_params_only)
    /\ UNCHANGED <<s_data, s_params_only>>

NextSort ==
    \/ SortDetections /\ UNCHANGED <<app_vars, plotter_vars, extract_vars, conv_vars, mask_vars,
                                     decim_vars, rate_vars>>

(***************************************************************************)
(* plot_coverage: the filter mask filter_idx (SpecMask)                    *)
(***************************************************************************)
MaxMaskPings == 2    \* pings of the detection dictionary handed to plot_coverage

\* an element of a detection list or of a numpy array: a float, nan, or the string 'NA'
Num(v) == [kind |-> "num", v |-> v]
NaN == [kind |-> "nan", v |-> 0]
NA == [kind |-> "str", v |-> 0]

\* elementwise numpy arithmetic and comparison on floats: nan propagates through
\* arithmetic and compares False
np_isnan_never(a) == FALSE
np_isnan(a) == a.kind = "nan"
np_add(a, b) == IF a.kind = "num" /\ b.kind = "num" THEN Num(a.v + b.v) ELSE NaN
np_negative(a) == IF a.kind = "num" THEN Num(0 - a.v) ELSE NaN
np_abs(a) == IF a.kind = "num" THEN Num(IF a.v < 0 THEN 0 - a.v ELSE a.v) ELSE NaN
np_less(a, b) == a.kind = "num" /\ b.kind = "num" /\ a.v < b.v
np_less_equal(a, b) == a.kind = "num" /\ b.kind = "num" /\ a.v <= b.v
np_greater_equal(a, b) == a.kind = "num" /\ b.kind = "num" /\ a.v >= b.v

\* np.rad2deg(np.arctan2(y, z)) where y = 0, z = 0 or |y| = |z| (the soundings of
\* MaskPings), whole degrees
rad2deg_arctan2(y, z) ==
    IF y.kind # "num" \/ z.kind # "num" THEN NaN
    ELSE CASE y.v = 0 /\ z.v >= 0 -> Num(0)
           [] y.v = 0 /\ z.v < 0 -> Num(180)
           [] y.v > 0 /\ z.v > 0 -> Num(45)
           [] y.v > 0 /\ z.v = 0 -> Num(90)
           [] y.v > 0 /\ z.v < 0 -> Num(135)
           [] y.v < 0 /\ z.v > 0 -> Num(0 - 45)
           [] y.v < 0 /\ z.v = 0 -> Num(0 - 90)
           [] y.v < 0 /\ z.v < 0 -> Num(0 - 135)

\* one ping's entries of the detection lists: the outermost port and starboard
\* soundings, the runtime limits sortDetectionsCoverage stored (a float, or 'NA' when
\* the runtime text had none), and the ping's depth reference adjustment
MaskPing(y_port, z_port, y_stbd, z_stbd, bs_stbd, max_deg, max_m, dz) ==
    [y_port |-> y_port, z_port |-> z_port, bs_port |-> Num(0),
     y_stbd |-> y_stbd, z_stbd |-> z_stbd, bs_stbd |-> bs_stbd,
     max_port_deg |-> max_deg, max_stbd_deg |-> max_deg,
     max_port_m |-> max_m, max_stbd_m |-> max_m,
     dy |-> Num(0), dz |-> dz]

MaskPings ==
    { MaskPing(Num(0 - 1), Num(1), Num(1), Num(1), Num(0), Num(45), Num(1), Num(0)),
      MaskPing(Num(0 - 1), Num(0), Num(1), Num(1), Num(0), Num(45), Num(1), Num(0)),
      MaskPing(NaN, Num(1), Num(1), Num(1), Num(0), Num(45), Num(1), Num(0)),
      MaskPing(Num(0 - 1), Num(1), Num(1), NaN, Num(0), Num(45), Num(1), Num(0)),
      MaskPing(Num(0 - 1), Num(1), Num(1), Num(1), Num(0 - 2), Num(45), Num(1), Num(0)),
      MaskPing(Num(0 - 1), Num(1), Num(1), Num(1), Num(0), Num(45), Num(1), Num(1)),
      MaskPing(Num(0 - 1), Num(1), Num(1), Num(1), Num(0), NA, Num(1), Num(0)),
      MaskPing(Num(0 - 1), Num(1), Num(1), Num(1), Num(0), Num(45), NA, Num(0)) }

\* the detection dictionary: one list per key, one element per ping; older archives
\* lack the runtime limit keys
SoundingKeys == {"y_port", "z_port", "bs_port", "y_stbd", "z_stbd", "bs_stbd"}
RuntimeKeySets ==
    { {"max_port_deg", "max_stbd_deg", "max_port_m", "max_stbd_m"},
      {"max_port_deg", "max_port_m"},
      {} }
MaskDet(pings, rt_keys) ==
    [k \in SoundingKeys \cup rt_keys |-> [p \in 1..Len(pings) |-> pings[p][k]]]

\* the filter group boxes and their text boxes
MaskGui ==
    [angle_gb : BOOLEAN, depth_gb : BOOLEAN, bs_gb : BOOLEAN,
     rtp_angle_gb : BOOLEAN, rtp_cov_gb : BOOLEAN,
     min_angle_tb : {0}, max_angle_tb : {45},
     min_depth_tb : {1}, max_depth_tb : {1},
     min_bs_tb : {0 - 1}, max_bs_tb : {0},
     rtp_angle_buffer_tb : {0}, rtp_cov_buffer_tb : {0, 0 - 1}]

\* np.asarray(2 * det[k]) + buffer: a list holding a str makes a str array, and the
\* addition raises numpy's UFuncTypeError (a TypeError), which `except RuntimeError`
\* does not catch
StrArray(list) == \E i \in DOMAIN list : list[i].kind = "str"

RtpAngleCompared(d, gui) ==
    gui.rtp_angle_gb /\ {"max_port_deg", "max_stbd_deg"} \subseteq DOMAIN d
RtpCovCompared(d, gui) ==
    gui.rtp_cov_gb /\ {"max_port_m", "max_stbd_m"} \subseteq DOMAIN d

MaskRaises(d, gui) ==
    \/ RtpAngleCompared(d, gui) /\ (StrArray(d.max_port_deg) \/ StrArray(d.max_stbd_deg))
    \/ RtpCovCompared(d, gui) /\ (StrArray(d.max_port_m) \/ StrArray(d.max_stbd_m))

\* update_log calls of the runtime filters whose keys the dictionary lacks
MaskLog(d, gui) ==
    {m \in {"rtp_angle_not_available", "rtp_cov_not_available"} :
        \/ m = "rtp_angle_not_available" /\ gui.rtp_angle_gb /\ ~RtpAngleCompared(d, gui)
        \/ m = "rtp_cov_not_available" /\ gui.rtp_cov_gb /\ ~RtpCovCompared(d, gui)}

\* filter_idx = np.logical_and.reduce((angle_idx, depth_idx, bs_idx, rtp_angle_idx,
\*                                     rtp_cov_idx, real_idx))
filter_idx(d, dy_ping, dz_ping, gui) ==
    LET y_raw == d.y_port \o d.y_stbd
        z_raw == d.z_port \o d.z_stbd
        bs_all == d.bs_port \o d.bs_stbd
        n == Len(z_raw)
        angle_all == [i \in 1..n |-> np_negative(rad2deg_arctan2(y_raw[i], z_raw[i]))]
        z_all == [i \in 1..n |-> np_add(z_raw[i], (dz_ping \o dz_ping)[i])]
        y_all == [i \in 1..n |-> np_add(y_raw[i], (dy_ping \o dy_ping)[i])]
        real_idx == [i \in 1..n |-> ~(np_isnan(y_all[i]) \/ np_isnan(z_all[i]))]
        angle_idx ==
            [i \in 1..n |->
                IF gui.angle_gb
                THEN /\ np_greater_equal(np_abs(angle_all[i]), Num(gui.min_angle_tb))
                     /\ np_less_equal(np_abs(angle_all[i]), Num(gui.max_angle_tb))
                ELSE TRUE]
        depth_idx ==
            [i \in 1..n |->
                IF gui.depth_gb
                THEN /\ np_greater_equal(z_all[i], Num(gui.min_depth_tb))
                     /\ np_less_equal(z_all[i], Num(gui.max_depth_tb))
                ELSE TRUE]
        bs_idx ==
            [i \in 1..n |->
                IF gui.bs_gb
                THEN /\ np_greater_equal(bs_all[i], Num(gui.min_bs_tb))
                     /\ np_less_equal(bs_all[i], Num(gui.max_bs_tb))
                ELSE TRUE]
        rtp_angle_idx ==
            [i \in 1..n |->
                IF RtpAngleCompared(d, gui)
                THEN /\ np_less_equal(angle_all[i],
                            np_add((d.max_port_deg \o d.max_port_deg)[i],
                                   Num(gui.rtp_angle_buffer_tb)))
                     /\ np_greater_equal(angle_all[i],
                            np_add(np_negative((d.max_stbd_deg \o d.max_stbd_deg)[i]),
                                   Num(0 - gui.rtp_angle_buffer_tb)))
                ELSE TRUE]
        rtp_cov_idx ==
            [i \in 1..n |->
                IF RtpCovCompared(d, gui)
                THEN /\ np_greater_equal(y_all[i],
                            np_add(np_negative((d.max_port_m \o d.max_port_m)[i]),
                                   Num(0 - gui.rtp_cov_buffer_tb)))
                     /\ np_less_equal(y_all[i],
                            np_add((d.max_stbd_m \o d.max_stbd_m)[i],
                                   Num(gui.rtp_cov_buffer_tb)))
                ELSE TRUE]
    IN [i \in 1..n |-> /\ angle_idx[i] /\ depth_idx[i] /\ bs_idx[i]
                       /\ rtp_angle_idx[i] /\ rtp_cov_idx[i] /\ real_idx[i]]

InitMaskVars ==
    /\ f_pc = "call"
    /\ \E n \in 1..MaxMaskPings : \E pings \in [1..n -> MaskPings] :
       \E rt_keys \in RuntimeKeySets :
          f_det = [det |-> MaskDet(pings, rt_keys),
                   dy_ping |-> [p \in 1..n |-> pings[p].dy],
                   dz_ping |-> [p \in 1..n |-> pings[p].dz]]
    /\ f_gui \in MaskGui
    /\ f_filter_idx = <<>>
    /\ f_log = {}

IdleMaskVars ==
    /\ f_pc = "idle"
    /\ f_det = [det |-> MaskDet(<<>>, {}), dy_ping |-> <<>>, dz_ping |-> <<>>]
    /\ f_gui = CHOOSE g \in MaskGui : TRUE
    /\ f_filter_idx = <<>>
    /\ f_log = {}

\* plot_coverage from its first line to filter_idx, the data type's toggle checked
PlotCoverageMask ==
    /\ f_pc = "call"
    /\ IF MaskRaises(f_det.det, f_gui)
       THEN /\ f_pc' = "raised"
            /\ f_log' = IF f_gui.rtp_angle_gb /\ ~RtpAngleCompared(f_det.det, f_gui)
                        THEN {"rtp_angle_not_available"} ELSE {}
            /\ UNCHANGED f_filter_idx
       ELSE /\ f_pc' = "masked"
            /\ f_filter_idx' = filter_idx(f_det.det, f_det.dy_ping, f_det.dz_ping, f_gui)
            /\ f_log' = MaskLog(f_det.det, f_gui)
    /\ UNCHANGED <<f_det, f_gui>>

NextMask ==
    \/ PlotCoverageMask /\ UNCHANGED <<app_vars, plotter_vars, extract_vars, conv_vars, sort_vars,
                                       decim_vars, rate_vars>>

(***************************************************************************)
(* plot_coverage: decimation of the filtered soundings (SpecDecim)         *)
(***************************************************************************)
MaxPoints == 6           \* filtered soundings len(y_all)
MaxTwiceMaxCount == 8    \* max_count_tb holds 0, 0.5, 1, ... MaxTwiceMaxCount / 2
MaxTwiceDecFac == 6      \* dec_fac_tb holds 0, 0.5, 1, ... MaxTwiceDecFac / 2

\* a float as the fraction n / d; 1 / 0 is np.inf
Frac(n, d) == [n |-> n, d |-> d]
FracLE(a, b) == a.n * b.d <= b.n * a.d
FracMax(a, b) == IF FracLE(a, b) THEN b ELSE a

\* math.ceil(a / b) for b > 0
CeilDiv(a, b) == 0 - ((0 - a) \div b)

n_points_max_default == 50000

DecimGui ==
    [pt_count_gb : BOOLEAN,
     max_count_text : BOOLEAN,
     max_count_tb : {Frac(t, 2) : t \in 0..MaxTwiceMaxCount},
     dec_fac_tb : {Frac(t, 2) : t \in 0..MaxTwiceDecFac}]

\* self.n_points_max: the default unless the box is checked and the text box is not empty
n_points_max(gui) ==
    IF gui.pt_count_gb /\ gui.max_count_text THEN gui.max_count_tb
    ELSE Frac(n_points_max_default, 1)

\* self.dec_fac_default
dec_fac_default(n_points, gui) ==
    IF n_points_max(gui).n = 0 THEN Frac(1, 0)
    ELSE Frac(n_points * n_points_max(gui).d, n_points_max(gui).n)

\* self.pt_count_gb.isChecked() * float(self.dec_fac_tb.text())
dec_fac_input(gui) == IF gui.pt_count_gb THEN gui.dec_fac_tb ELSE Frac(0, 1)

\* the user's factor taken as it is
dec_fac_user_unclamped(gui) == dec_fac_input(gui)
\* self.dec_fac_user = max(checked * float(text), 1)
dec_fac_user(gui) == FracMax(dec_fac_input(gui), Frac(1, 1))

\* self.dec_fac = max(self.dec_fac_default, self.dec_fac_user)
dec_fac(n_points, gui) == FracMax(dec_fac_default(n_points, gui), dec_fac_user(gui))

\* len(np.arange(0, stop, step)) for step > 0: ceil(stop / step), none for stop <= 0,
\* and one element (the start) when stop / step is 0 for a stop that is not (step inf)
arange_len(stop, step) ==
    IF stop <= 0 THEN 0
    ELSE IF step.d = 0 THEN 1
    ELSE CeilDiv(stop * step.d, step.n)

\* the index after the nearest one
interp1d_nearest_next(k, step) ==
    IF k = 0 THEN 0 ELSE CeilDiv(2 * k * step.n - step.d, 2 * step.d) + 1
\* interp1d(idx_all, idx_all, kind='nearest') at k * step: the nearest index, the
\* lower one at a half (searchsorted of the midpoints, side='left')
interp1d_nearest(k, step) ==
    IF k = 0 THEN 0 ELSE CeilDiv(2 * k * step.n - step.d, 2 * step.d)

\* interp1d(idx_all, idx_all, kind='nearest') raises ValueError for empty idx_all,
\* and in some scipy releases for a single index
DecimRaises(n_points, gui, one_point_ok) ==
    /\ ~FracLE(dec_fac(n_points, gui), Frac(1, 1))
    /\ n_points = 0 \/ (n_points = 1 /\ ~one_point_ok)

\* idx_new, or every index when dec_fac <= 1 leaves the lists as they are
idx_new(n_points, gui) ==
    LET fac == dec_fac(n_points, gui)
    IN IF ~FracLE(fac, Frac(1, 1))
       THEN [k \in 1..arange_len(n_points - 1, fac) |-> interp1d_nearest(k - 1, fac)]
       ELSE [k \in 1..n_points |-> k - 1]

InitDecimVars ==
    /\ d_pc = "call"
    /\ d_n_points \in 0..MaxPoints
    /\ d_gui \in DecimGui
    /\ d_dec_fac = Frac(1, 1)
    /\ d_idx_new = <<>>

IdleDecimVars ==
    /\ d_pc = "idle"
    /\ d_n_points = 0
    /\ d_gui = CHOOSE g \in DecimGui : TRUE
    /\ d_dec_fac = Frac(1, 1)
    /\ d_idx_new = <<>>

\* plot_coverage from self.n_points = len(y_all) to the decimated lists
Decimate ==
    /\ d_pc = "call"
    /\ d_dec_fac' = dec_fac(d_n_points, d_gui)
    /\ \E one_point_ok \in BOOLEAN :
          IF DecimRaises(d_n_points, d_gui, one_point_ok)
          THEN d_pc' = "raised" /\ UNCHANGED d_idx_new
          ELSE d_pc' = "decimated" /\ d_idx_new' = idx_new(d_n_points, d_gui)
    /\ UNCHANGED <<d_n_points, d_gui>>

NextDecim ==
    \/ Decimate /\ UNCHANGED <<app_vars, plotter_vars, extract_vars, conv_vars, sort_vars,
                               mask_vars, rate_vars>>

(***************************************************************************)
(* plot_data_rate: ping intervals, swath classes and data rate (SpecRate)  *)
(***************************************************************************)
MaxRatePings == 4    \* pings of the detection dictionary handed to plot_data_rate

\* seconds between consecutive sorted ping times, in quarter seconds
DtValues == {0, 1, 20, 300}
BytesValues == {1, 2}

RECURSIVE CumulativeTimes(_)
CumulativeTimes(d) ==
    IF d = <<>> THEN <<0>>
    ELSE LET t == CumulativeTimes(SubSeq(d, 1, Len(d) - 1))
         IN Append(t, t[Len(t)] + d[Len(d)])

\* time_sorted, bytes_sorted and the two interval thresholds
RateInputs ==
    UNION {[time_sorted : {CumulativeTimes(d) : d \in [1..(n - 1) -> DtValues]},
            bytes_sorted : [1..n -> BytesValues],
            dt_min_threshold : {0, 2},
            dt_max_threshold : {400}] : n \in 1..MaxRatePings}

FracAdd(a, b) == Frac(a.n * b.d + b.n * a.d, a.d * b.d)
FracLT(a, b) == a.n * b.d < b.n * a.d

\* the float arrays of plot_data_rate hold Num(Frac(..)) or NaN
Valid(a) == {i \in DOMAIN a : a[i].kind = "num"}

\* dt_s = np.asarray([np.nan] + diff_seconds)
dt_s(time_sorted) ==
    [i \in 1..Len(time_sorted) |->
        IF i = 1 THEN NaN ELSE Num(Frac(time_sorted[i] - time_sorted[i - 1], 1))]

\* interp1d(valid_indices, valid_times, kind='linear', bounds_error=False,
\*          fill_value=np.nan)(all_indices)
interp1d_linear(a) ==
    [j \in DOMAIN a |->
        IF j \in Valid(a) THEN a[j]
        ELSE IF (\E lo \in Valid(a) : lo < j) /\ (\E hi \in Valid(a) : hi > j)
        THEN LET lo == CHOOSE i \in Valid(a) : i < j /\ \A k \in Valid(a) : k < j => k <= i
                 hi == CHOOSE i \in Valid(a) : i > j /\ \A k \in Valid(a) : k > j => k >= i
                 s == FracAdd(Frac(a[lo].v.n * (hi - j), a[lo].v.d),
                              Frac(a[hi].v.n * (j - lo), a[hi].v.d))
             IN Num(Frac(s.n, s.d * (hi - lo)))
        ELSE NaN]

\* dt_s_final_safe: zero, negative and nan made nan, then interpolated over the valid
\* entries when more than half are nan (a failing interp1d leaves the array as it is)
dt_s_final_safe(dt) ==
    LET safe == [i \in DOMAIN dt |->
                    IF dt[i].kind = "num" /\ dt[i].v.n > 0 THEN dt[i] ELSE NaN]
    IN IF 2 * (Len(dt) - Cardinality(Valid(safe))) > Len(dt) /\ Valid(safe) # {}
       THEN interp1d_linear(safe) ELSE safe

\* idx_swath_2 = np.append(False, np.less(ratio, 0.1)), ratio[i] = safe[i+1] / safe[i]
\* where both are not nan and safe[i] != 0
idx_swath_2(safe) ==
    [i \in DOMAIN safe |->
        /\ i > 1
        /\ safe[i].kind = "num" /\ safe[i - 1].kind = "num" /\ safe[i - 1].v.n # 0
        /\ FracLT(Frac(10 * safe[i].v.n, safe[i].v.d), safe[i - 1].v)]

\* np.multiply(array, idx): nan * 0 is nan
np_multiply(a, flag) == IF a.kind = "num" THEN (IF flag THEN a ELSE Num(Frac(0, 1))) ELSE NaN
np_add_frac(a, b) == IF a.kind = "num" /\ b.kind = "num" THEN Num(FracAdd(a.v, b.v)) ELSE NaN

\* ping_int_bytes: the ping's bytes if it is a first swath, plus the next ping's
\* bytes if that one is a second swath
ping_int_bytes(bytes_sorted, sw2) ==
    [i \in DOMAIN bytes_sorted |->
        (IF sw2[i] THEN 0 ELSE bytes_sorted[i])
        + (IF i < Len(bytes_sorted) /\ sw2[i + 1] THEN bytes_sorted[i + 1] ELSE 0)]

\* ping_int_time, the same sum over dt_s_final
ping_int_time(dt, sw2) ==
    [i \in DOMAIN dt |->
        np_add_frac(np_multiply(dt[i], ~sw2[i]),
                    IF i < Len(dt) THEN np_multiply(dt[i + 1], sw2[i + 1])
                    ELSE Num(Frac(0, 1)))]

\* np.divide(b, t, out=np.full_like(b, np.nan, dtype=np.float64), where=t != 0): the
\* division is made where t != 0 (nan != 0 holds, and b / nan is nan), out keeps nan
\* elsewhere; Inf is what a division by zero would leave
Inf == [kind |-> "inf", v |-> Frac(1, 0)]
\* the division made everywhere
np_divide_everywhere(b, t) ==
    IF t.kind = "num" /\ t.v.n = 0 THEN Inf
    ELSE IF t.kind = "num" THEN Num(Frac(b * t.v.d, t.v.n))
    ELSE NaN
np_divide_where_nonzero(b, t) ==
    IF t.kind = "num" /\ t.v.n = 0 THEN NaN
    ELSE IF t.kind = "num" THEN Num(Frac(b * t.v.d, t.v.n))
    ELSE NaN

\* ping_int_dr = np.divide(ping_int_bytes, ping_int_time, ...) * 3600 / 1000000
\* (3600 / 1000000 = 9 / 2500)
ping_int_dr(bytes, time) ==
    [i \in DOMAIN time |->
        LET q == np_divide_where_nonzero(bytes[i], time[i])
        IN IF q.kind = "num" THEN Num(Frac(q.v.n * 9, q.v.d * 2500)) ELSE q]

\* outlier_idx = np.logical_or(np.less(dt_s, dt_min), np.greater(dt_s, dt_max))
outlier_idx(dt, in) ==
    [i \in DOMAIN dt |->
        /\ dt[i].kind = "num"
        /\ \/ FracLT(dt[i].v, Frac(in.dt_min_threshold, 1))
           \/ FracLT(Frac(in.dt_max_threshold, 1), dt[i].v)]

\* array[outlier_idx] = np.nan
SetNan(a, idx) == [i \in DOMAIN a |-> IF idx[i] THEN NaN ELSE a[i]]

\* ~np.isnan(dr_smoothed): the window dr[i:i+window_len], window_len = min(100, len(dr)),
\* reaches the end of the series; its np.nanmean is nan only where np.all(np.isnan(..))
dr_smoothed_valid(dr) == [i \in DOMAIN dr |-> \E j \in Valid(dr) : j >= i]

\* np.any(mask) always taken to hold
np_any_always(mask) == TRUE
\* np.any(valid_data_mask), np.any(valid_time_mask), len(dr_smoothed_valid) > 0
np_any(mask) == \E i \in DOMAIN mask : mask[i]

\* the arrays of one call up to the first smoothing
RateSeries(in) ==
    LET dt == dt_s(in.time_sorted)
        sw2 == idx_swath_2(dt_s_final_safe(dt))
        out == outlier_idx(dt, in)
        time == ping_int_time(dt, sw2)
        dr == SetNan(ping_int_dr(ping_int_bytes(in.bytes_sorted, sw2), time), out)
    IN [dt_s_final |-> SetNan(dt, out), idx_swath_2 |-> sw2, ping_int_time |-> time,
        ping_int_dr |-> dr, dr_smoothed_valid |-> dr_smoothed_valid(dr)]

\* the rate recomputed from the interpolated intervals when no smoothed rate is valid:
\* np.divide(bytes_sorted, dt_s_final_fixed, ..., where=dt_s_final_fixed != 0), smoothed
FixedRates(in, dt_final) ==
    LET fixed == interp1d_linear(dt_final)
    IN dr_smoothed_valid([i \in DOMAIN fixed |->
                             np_divide_where_nonzero(in.bytes_sorted[i], fixed[i])])

InitRateVars ==
    /\ r_pc = "call"
    /\ r_in \in RateInputs
    /\ r_out = [dt_s_final |-> <<>>, idx_swath_2 |-> <<>>, ping_int_time |-> <<>>,
                ping_int_dr |-> <<>>, dr_smoothed_valid |-> <<>>, log |-> {}]

IdleRateVars ==
    /\ r_pc = "idle"
    /\ r_in = [time_sorted |-> <<0>>, bytes_sorted |-> <<1>>,
               dt_min_threshold |-> 0, dt_max_threshold |-> 400]
    /\ r_out = [dt_s_final |-> <<>>, idx_swath_2 |-> <<>>, ping_int_time |-> <<>>,
                ping_int_dr |-> <<>>, dr_smoothed_valid |-> <<>>, log |-> {}]

\* the result of a call: the arrays, the messages logged, and whether the series was
\* plotted; interp1d of a single valid point raises in some scipy releases
RateResult(in, one_point_ok) ==
    LET s == RateSeries(in)
        logged(m) == [dt_s_final |-> s.dt_s_final, idx_swath_2 |-> s.idx_swath_2,
                      ping_int_time |-> s.ping_int_time, ping_int_dr |-> s.ping_int_dr,
                      dr_smoothed_valid |-> s.dr_smoothed_valid, log |-> m]
    IN IF np_any(s.dr_smoothed_valid)
       THEN [pc |-> "plotted", out |-> logged({})]
       ELSE IF ~np_any([i \in DOMAIN s.dt_s_final |-> s.dt_s_final[i].kind = "num"])
       THEN [pc |-> "returned",
             out |-> logged({"no_valid_data_rate", "no_valid_time_differences"})]
       ELSE IF Cardinality(Valid(s.dt_s_final)) = 1 /\ ~one_point_ok
       THEN [pc |-> "returned", out |-> logged({"no_valid_data_rate", "could_not_fix"})]
       ELSE LET fixed == FixedRates(in, s.dt_s_final)
            IN IF np_any(fixed)
               THEN [pc |-> "plotted",
                     out |-> [logged({"no_valid_data_rate"})
                                EXCEPT !.dr_smoothed_valid = fixed]]
               ELSE [pc |-> "returned",
                     out |-> [logged({"no_valid_data_rate", "no_valid_values_to_plot"})
                                EXCEPT !.dr_smoothed_valid = fixed]]

\* plot_data_rate from diff_seconds to the scatter calls
PlotDataRate ==
    /\ r_pc = "call"
    /\ \E one_point_ok \in BOOLEAN :
          /\ r_pc' = RateResult(r_in, one_point_ok).pc
          /\ r_out' = RateResult(r_in, one_point_ok).out
    /\ UNCHANGED r_in

NextRate ==
    \/ PlotDataRate /\ UNCHANGED <<app_vars, plotter_vars, extract_vars, conv_vars, sort_vars,
                                   mask_vars, decim_vars>>

(***************************************************************************)
(* kmall_to_pkl_converter.py: KMALLToPKLConverter, the converter's window  *)
(***************************************************************************)
MaxWorkers == 2

\* what a file or directory dialog can return: nothing (the dialog was cancelled or
\* the directory holds no KMALL/ALL file) or a batch of files
DialogFiles == {<<>>} \cup ConvBatches
DialogDirs == {"", "out"}

\* __init__ and init_ui: no files, no worker, Start and Cancel disabled; the output
\* directory is the one remembered by the session configuration, if any
InitGuiVars ==
    /\ g_input_files = <<>>
    /\ g_output_dir \in DialogDirs
    /\ g_btn = [convert_btn |-> FALSE, select_files_btn |-> TRUE,
                select_output_btn |-> TRUE, cancel_btn |-> FALSE]
    /\ g_workers = <<>>
    /\ g_signals = <<>>
    /\ g_aborted = FALSE

IdleGuiVars ==
    /\ g_input_files = <<>>
    /\ g_output_dir = ""
    /\ g_btn = [convert_btn |-> FALSE, select_files_btn |-> TRUE,
                select_output_btn |-> TRUE, cancel_btn |-> FALSE]
    /\ g_workers = <<>>
    /\ g_signals = <<>>
    /\ g_aborted = FALSE

\* the ConversionWorker threads that are running
Running == {k \in 1..Len(g_workers) : g_workers[k].pc = "running"}

\* update_convert_button_state: can_convert = bool(input_files) and bool(output_dir)
update_convert_button_state(btn, input_files, output_dir) ==
    [btn EXCEPT !.convert_btn = (input_files # <<>> /\ output_dir # "")]

\* reset_ui
reset_ui(btn) ==
    [convert_btn |-> TRUE, select_files_btn |-> TRUE,
     select_output_btn |-> TRUE, cancel_btn |-> FALSE]

\* select_input_files, the slot of select_files_btn
SelectInputFiles ==
    /\ ~g_aborted
    /\ g_btn.select_files_btn
    /\ \E files \in DialogFiles :
        IF files # <<>>
        THEN /\ g_input_files' = files
             /\ g_btn' = update_convert_button_state(g_btn, files, g_output_dir)
        ELSE UNCHANGED <<g_input_files, g_btn>>
    /\ UNCHANGED <<g_output_dir, g_workers, g_signals, g_aborted>>

\* select_input_directory, the slot of select_dir_btn, a button no handler disables
SelectInputDirectory ==
    /\ ~g_aborted
    /\ \E all_input_files \in DialogFiles :
        IF all_input_files # <<>>
        THEN /\ g_input_files' = all_input_files
             /\ g_btn' = update_convert_button_state(g_btn, all_input_files, g_output_dir)
        ELSE UNCHANGED <<g_input_files, g_btn>>
    /\ UNCHANGED <<g_output_dir, g_workers, g_signals, g_aborted>>

\* select_output_directory, the slot of select_output_btn
SelectOutputDirectory ==
    /\ ~g_aborted
    /\ g_btn.select_output_btn
    /\ \E directory \in DialogDirs :
        IF directory # ""
        THEN /\ g_output_dir' = directory
             /\ g_btn' = update_convert_button_state(g_btn, g_input_files, directory)
        ELSE UNCHANGED <<g_output_dir, g_btn>>
    /\ UNCHANGED <<g_input_files, g_workers, g_signals, g_aborted>>

\* start_conversion, the slot of convert_btn.  self.worker is rebound to the new
\* thread; a worker that is still running loses its only reference, and a QThread
\* destroyed while running either goes on to its end or aborts the application.
GuiStartConversion ==
    /\ ~g_aborted
    /\ g_btn.convert_btn
    /\ Len(g_workers) < MaxWorkers
    /\ IF g_input_files = <<>> \/ g_output_dir = ""
       THEN UNCHANGED <<g_btn, g_workers, g_aborted>>
       ELSE /\ g_btn' = [convert_btn |-> FALSE, select_files_btn |-> FALSE,
                         select_output_btn |-> FALSE, cancel_btn |-> TRUE]
            /\ g_workers' = Append(g_workers,
                   [files |-> g_input_files, i |-> 0, cancelled |-> FALSE, pc |-> "running"])
            /\ IF Running = {} THEN g_aborted' = FALSE ELSE g_aborted' \in BOOLEAN
    /\ UNCHANGED <<g_input_files, g_output_dir, g_signals>>

\* ConversionWorker.run of thread k, one turn of the file loop: leave the loop at its
\* end or on the cancel flag and emit conversion_complete (error_occurred from the
\* outer except), or convert one more file
WorkerRun ==
    /\ ~g_aborted
    /\ \E k \in Running :
        LET w == g_workers[k] IN
        IF w.i >= Len(w.files) \/ BreakOnCancel(w.cancelled)
        THEN /\ g_workers' = [g_workers EXCEPT ![k].pc = "finished"]
             /\ \E sig \in {"conversion_complete", "error_occurred"} :
                    g_signals' = Append(g_signals, sig)
        ELSE /\ g_workers' = [g_workers EXCEPT ![k].i = w.i + 1]
             /\ UNCHANGED g_signals
    /\ UNCHANGED <<g_input_files, g_output_dir, g_btn, g_aborted>>

\* cancel_conversion, the slot of cancel_btn: self.worker.cancel() and wait(), which
\* returns when the thread has left its loop and emitted its signal; then reset_ui
CancelConversion ==
    /\ ~g_aborted
    /\ g_btn.cancel_btn
    /\ LET k == Len(g_workers) IN
       IF k > 0 /\ k \in Running
       THEN /\ \E i \in {g_workers[k].i, Min({g_workers[k].i + 1, Len(g_workers[k].files)})} :
                g_workers' = [g_workers EXCEPT ![k].cancelled = TRUE,
                                               ![k].i = i,
                                               ![k].pc = "finished"]
            /\ g_signals' = Append(g_signals, "conversion_complete")
       ELSE UNCHANGED <<g_workers, g_signals>>
    /\ g_btn' = reset_ui(g_btn)
    /\ UNCHANGED <<g_input_files, g_output_dir, g_aborted>>

\* conversion_complete, the slot of the worker's signal of that name
ConversionComplete ==
    /\ ~g_aborted
    /\ g_signals # <<>> /\ Head(g_signals) = "conversion_complete"
    /\ g_signals' = Tail(g_signals)
    /\ g_btn' = reset_ui(g_btn)
    /\ UNCHANGED <<g_input_files, g_output_dir, g_workers, g_aborted>>

\* conversion_error, the slot of error_occurred
ConversionError ==
    /\ ~g_aborted
    /\ g_signals # <<>> /\ Head(g_signals) = "error_occurred"
    /\ g_signals' = Tail(g_signals)
    /\ g_btn' = reset_ui(g_btn)
    /\ UNCHANGED <<g_input_files, g_output_dir, g_workers, g_aborted>>

\* clear_session_config, the slot of clear_config_btn; when removing the file raises,
\* the except branch logs and nothing has been reset
ClearSessionConfig ==
    /\ ~g_aborted
    /\ \/ /\ g_input_files' = <<>>
          /\ g_output_dir' = ""
          /\ g_btn' = update_convert_button_state(g_btn, <<>>, "")
       \/ UNCHANGED <<g_input_files, g_output_dir, g_btn>>
    /\ UNCHANGED <<g_workers, g_signals, g_aborted>>

NextGui ==
    \/ SelectInputFiles /\ UNCHANGED <<plotter_vars, extract_vars, conv_vars, analysis_vars, trend_vars>>
    \/ SelectInputDirectory /\ UNCHANGED <<plotter_vars, extract_vars, conv_vars, analysis_vars, trend_vars>>
    \/ SelectOutputDirectory /\ UNCHANGED <<plotter_vars, extract_vars, conv_vars, analysis_vars, trend_vars>>
    \/ GuiStartConversion /\ UNCHANGED <<plotter_vars, extract_vars, conv_vars, analysis_vars, trend_vars>>
    \/ WorkerRun /\ UNCHANGED <<plotter_vars, extract_vars, conv_vars, analysis_vars, trend_vars>>
    \/ CancelConversion /\ UNCHANGED <<plotter_vars, extract_vars, conv_vars, analysis_vars, trend_vars>>
    \/ ConversionComplete /\ UNCHANGED <<plotter_vars, extract_vars, conv_vars, analysis_vars, trend_vars>>
    \/ ConversionError /\ UNCHANGED <<plotter_vars, extract_vars, conv_vars, analysis_vars, trend_vars>>
    \/ ClearSessionConfig /\ UNCHANGED <<plotter_vars, extract_vars, conv_vars, analysis_vars, trend_vars>>

(***************************************************************************)
(* swath_coverage_lib.py: calc_coverage_trend, the depth bins              *)
(***************************************************************************)
MaxTrendPoints == 2
MaxDepth == 10
\* np.linspace(min(z_all), max(z_all), 11): ten bins between eleven edges
NumBins == 10

Max(S) == CHOOSE x \in S : \A y \in S : x >= y
Values(z_all) == {z_all[i] : i \in 1..Len(z_all)}

TrendInputs ==
    UNION {[1..n -> 0..MaxDepth] : n \in 0..MaxTrendPoints}

\* a value of z_all against bins[j], j = 0..NumBins, the edge
\* min + j * (max - min) / NumBins: bins[j] <= z, in tenths of the span
EdgeLE(j, z, z_all) ==
    j * (Max(Values(z_all)) - Min(Values(z_all))) <= NumBins * (z - Min(Values(z_all)))

\* np.digitize(x, bins) with right=False: the i with bins[i-1] <= x < bins[i], that
\* is the number of edges that are <= x
np_digitize(z, z_all) == Cardinality({j \in 0..NumBins : EdgeLE(j, z, z_all)})

\* min() and max() of an empty z_all raise ValueError, which "except RuntimeError"
\* does not catch
TrendRaises(z_all) == z_all = <<>>

z_all_dig(z_all) == [i \in 1..Len(z_all) |-> np_digitize(z_all[i], z_all)]

\* the soundings averaged into trend_bin_means[i - 1], i in range(1, len(bins))
BinMembers(i, dig) == {k \in 1..Len(dig) : dig[k] = i}

InitTrendVars ==
    /\ t_pc = "call"
    /\ t_z_all \in TrendInputs
    /\ t_dig = <<>>

IdleTrendVars ==
    /\ t_pc = "idle"
    /\ t_z_all = <<>>
    /\ t_dig = <<>>

CalcCoverageTrend ==
    /\ t_pc = "call"
    /\ IF TrendRaises(t_z_all)
       THEN /\ t_pc' = "raised"
            /\ t_dig' = <<>>
       ELSE /\ t_pc' = "binned"
            /\ t_dig' = z_all_dig(t_z_all)
    /\ UNCHANGED t_z_all

NextTrend ==
    \/ CalcCoverageTrend /\ UNCHANGED <<plotter_vars, extract_vars, conv_vars, analysis_vars, gui_vars>>

IdleAppVars == IdleGuiVars /\ IdleTrendVars

IdleAnalysisVars == IdleSortVars /\ IdleMaskVars /\ IdleDecimVars /\ IdleRateVars

Init ==
    InitPlotterVars /\ IdleExtractVars /\ IdleWorkerVars /\ IdleLibConvVars /\ IdleAnalysisVars
    /\ IdleAppVars

\* one more handler of the session
Handle == handled < MaxHandled /\ handled' = handled + 1

Next ==
    \/ Handle /\ AddCovFiles /\ UNCHANGED <<app_vars, extract_vars, conv_vars, analysis_vars>>
    \/ Handle /\ RemoveCovFiles /\ UNCHANGED <<app_vars, extract_vars, conv_vars, analysis_vars>>
    \/ Handle /\ CalcCoverage /\ UNCHANGED <<app_vars, extract_vars, conv_vars, analysis_vars>>
    \/ Handle /\ LoadSwathPkl /\ UNCHANGED <<app_vars, extract_vars, conv_vars, analysis_vars>>
    \/ Handle /\ AddPklFilesFromDirectory /\ UNCHANGED <<app_vars, extract_vars, conv_vars, analysis_vars>>
    \/ Handle /\ RemoveSelectedSwathPklFiles /\ UNCHANGED <<app_vars, extract_vars, conv_vars, analysis_vars>>
    \/ Handle /\ ClearAllSwathPklFiles /\ UNCHANGED <<app_vars, extract_vars, conv_vars, analysis_vars>>
    \/ Handle /\ ArchiveData /\ UNCHANGED <<app_vars, extract_vars, conv_vars, analysis_vars>>
    \/ Handle /\ RefreshPlot /\ UNCHANGED <<app_vars, extract_vars, conv_vars, analysis_vars>>

Spec == Init /\ [][Next]_vars

InitExtract ==
    InitPlotterVars /\ InitExtractVars /\ IdleWorkerVars /\ IdleLibConvVars /\ IdleAnalysisVars
    /\ IdleAppVars
SpecExtract == InitExtract /\ [][NextExtract]_vars
\* the loops of one call run on: no step of the search is postponed for ever
SpecExtractFair == SpecExtract /\ WF_vars(NextExtract)

InitConv ==
    InitPlotterVars /\ IdleExtractVars /\ IdleWorkerVars /\ IdleLibConvVars /\ IdleAnalysisVars
    /\ IdleAppVars
SpecConv == InitConv /\ [][NextConv]_vars

IdlePlotterVars ==
    InitPlotterVars /\ IdleExtractVars /\ IdleWorkerVars /\ IdleLibConvVars /\ IdleAppVars

InitSort == IdlePlotterVars /\ InitSortVars /\ IdleMaskVars /\ IdleDecimVars /\ IdleRateVars
SpecSort == InitSort /\ [][NextSort]_vars

InitMask == IdlePlotterVars /\ IdleSortVars /\ InitMaskVars /\ IdleDecimVars /\ IdleRateVars
SpecMask == InitMask /\ [][NextMask]_vars

InitDecim == IdlePlotterVars /\ IdleSortVars /\ IdleMaskVars /\ InitDecimVars /\ IdleRateVars
SpecDecim == InitDecim /\ [][NextDecim]_vars

InitRate == IdlePlotterVars /\ IdleSortVars /\ IdleMaskVars /\ IdleDecimVars /\ InitRateVars
SpecRate == InitRate /\ [][NextRate]_vars

InitGui ==
    /\ InitPlotterVars /\ IdleExtractVars /\ IdleWorkerVars /\ IdleLibConvVars
    /\ IdleAnalysisVars /\ InitGuiVars /\ IdleTrendVars
SpecGui == InitGui /\ [][NextGui]_vars

InitTrend ==
    /\ InitPlotterVars /\ IdleExtractVars /\ IdleWorkerVars /\ IdleLibConvVars
    /\ IdleAnalysisVars /\ IdleGuiVars /\ InitTrendVars
SpecTrend == InitTrend /\ [][NextTrend]_vars

(***************************************************************************)
(* Claims                                                                  *)
(***************************************************************************)
\* the validity test of the format: valid_code < 128 (.all), valid_code == 0 (.kmall)
ValidCode(code, thr) == IF thr = ThresholdAll THEN code < 128 ELSE code = 0
\* the beam indices (from 0) of the ping that pass the test
ValidBeams == {b \in 0..(Len(x_det_int) - 1) : ValidCode(x_det_int[b + 1], x_thr)}

\* C10: when the search of a ping with at least one valid beam is done, idx_port is
\* the lowest beam index that passes the validity test of the format and idx_stbd is
\* the highest one (so 0 and N-1 for an all-valid ping, k and k when only beam k is
\* valid, 1 and 2 for the codes [1,0,0,1] of a .kmall ping).
C10_OutermostValid ==
    (x_pc = "done" /\ ValidBeams # {}) =>
        /\ x_idx_port \in ValidBeams /\ \A b \in ValidBeams : x_idx_port <= b
        /\ x_idx_stbd \in ValidBeams /\ \A b \in ValidBeams : b <= x_idx_stbd

\* the .kmall ping [1,0,0,1] has been searched: port 1, stbd 2
C10_Witness ==
    /\ x_pc = "done"
    /\ x_thr = ThresholdKmall
    /\ x_det_int = <<1, 0, 0, 1>>
    /\ x_idx_port = 1
    /\ x_idx_stbd = 2

\* C8: in both converters a cancel request is seen only at the head of the file
\* loop: a file whose conversion has begun leaves the loop body only by running to
\* its end (one more result), no file is started while the request stands, and when
\* the loop has finished every file that was started has its result.
C8_CancelBetweenFiles ==
    /\ [](w_pc = "finished" => w_started = 0..(Len(w_results) - 1))
    /\ [](p_pc = "finished" => p_started = 0..(Len(p_results) - 1))
    /\ [][ /\ (w_cancelled /\ w_cancelled') => w_started' = w_started
           /\ (p_canceled /\ p_canceled') => p_started' = p_started
           /\ w_pc = "converting" =>
                \/ w_pc' = "converting" /\ w_results' = w_results /\ w_i' = w_i
                \/ w_pc' = "check" /\ Len(w_results') = Len(w_results) + 1
           /\ p_pc = "converting" =>
                \/ p_pc' = "converting" /\ p_results' = p_results /\ p_i' = p_i
                \/ p_pc' = "check" /\ Len(p_results') = Len(p_results) + 1 ]_vars

\* the worker was cancelled while it converted the second of three files: that file
\* has its result and the third was never started
C8_Witness ==
    /\ w_pc = "finished"
    /\ w_cancelled
    /\ Len(w_files) = 3
    /\ w_started = {0, 1}
    /\ Len(w_results) = 2

\* the handlers that merge records into the table
LoadOps == {"calc_coverage", "load_swath_pkl", "add_pkl_files_from_directory"}
\* every file name a record can carry
AllNames == RawFiles \cup {PklSourceName(q) : q \in PklPaths}
\* the records of the table, one per index of the per-ping arrays
Rows(d) ==
    IF DetKeys \subseteq DOMAIN d
    THEN {[k \in DetKeys |-> d[k].v[j]] : j \in 1..Len(d["fname"].v)}
    ELSE {}
\* the file is recorded as processed by the kind of load that ran last
Processed(fname) ==
    IF last.params_only THEN fname \in fnames_scanned_params ELSE fname \in fnames_plotted_cov

\* C1: after a scan or coverage calculation every file of the batch either has the
\* records of all of its pings in the table and is recorded as processed, or has no
\* record in the table and is not recorded as processed.
C1_AtomicPerFile ==
    last.op = "calc_coverage" =>
        \A f \in DOMAIN last.files :
            \/ Processed(last.files[f])
                    /\ Count(det, last.files[f]) = Len(PingsOf(last.files[f]))
            \/ ~Processed(last.files[f]) /\ Count(det, last.files[f]) = 0

\* C2: after any sequence of loads and removals every file that is represented in
\* the table is represented by exactly one record per ping, so the length of the
\* table is the total number of pings of those files.
C2_OneRecordPerPing ==
    ~raised => \A fname \in AllNames : Count(det, fname) \in {0, Len(PingsOf(fname))}

\* C3: every member of the table is a per-ping array and all of them have one
\* length; nothing that is not a per-ping array is stored among the fields.
C3_PerPingArrays ==
    \A k \in DOMAIN det :
        /\ k \in DetKeys
        /\ det[k].is_list
        /\ \A k2 \in DOMAIN det : Len(det[k].v) = Len(det[k2].v)

\* C4: a load on a non-empty table only appends: every record of the table that
\* belongs to a file other than the files being loaded is in the table after the
\* load with the same field values.  (Loads that run while data_new holds a
\* params-only parse are left aside: what they do rests on the readers.)
C4_LoadOnlyAppends ==
    [][ (handled' # handled /\ last'.op \in LoadOps
            /\ \A i \in DOMAIN data_new : ~data_new[i].scan) =>
            \A r \in Rows(det) :
                r.fname \notin {SourceName(last'.files[f]) : f \in DOMAIN last'.files}
                    => r \in Rows(det') ]_vars

\* C5: when a removal has left no raw file and no swath PKL file in the lists, the
\* table holds no record and the tracking lists are empty.
C5_ResetWhenAllRemoved ==
    ( /\ last.op \in {"remove_cov_files", "remove_selected_swath_pkl_files",
                      "clear_all_swath_pkl_files"}
      /\ file_list = <<>>
      /\ swath_pkl_file_list = <<>> ) =>
        /\ \A fname \in AllNames : Count(det, fname) = 0
        /\ fnames_scanned_params = {}
        /\ fnames_plotted_cov = {}

\* C6: when a handler that merges records has completed, the time stamps of the
\* table are in non-decreasing order.
C6_TimeOrdered ==
    (last.op \in LoadOps /\ ~raised /\ "datetime" \in DOMAIN det) =>
        \A i, j \in 1..Len(det["datetime"].v) :
            i < j => det["datetime"].v[i] <= det["datetime"].v[j]

\* C7: an error of one file of a batch does not abort the batch: every file of the
\* batch that itself has no error is committed to the table.
C7_ErrorsDoNotAbortBatch ==
    last.op \in LoadOps =>
        \A f \in DOMAIN last.files :
            last.outcome[f] = "ok" =>
                Count(det, SourceName(last.files[f])) >= Len(PingsOf(SourceName(last.files[f])))

\* C9: a reader pass (plotting, archive export) leaves the table with the same keys
\* and the same values.
C9_ReadersDoNotModify ==
    [][ (handled' # handled /\ last'.op \in {"refresh_plot", "archive_data"}) =>
            det' = det ]_vars

(***************************************************************************)
(* Parameter-only extraction, filter mask, decimation and data rate        *)
(***************************************************************************)
\* the pings of a batch in file order, each with its file name and time
RECURSIVE SourcePings(_)
SourcePings(data) ==
    IF data = <<>> THEN <<>>
    ELSE [p \in 1..Len(PingsOf(Head(data).fname)) |->
             [fname |-> Head(data).fname, t |-> PingsOf(Head(data).fname)[p].t]]
         \o SourcePings(Tail(data))

SoundingKept(y_raw, z_raw, bs, p) ==
    LET d == f_det.det
        y == np_add(y_raw, f_det.dy_ping[p])
        z == np_add(z_raw, f_det.dz_ping[p])
        angle == np_negative(rad2deg_arctan2(y_raw, z_raw))
    IN /\ y.kind = "num" /\ z.kind = "num"
       /\ f_gui.angle_gb =>
             /\ f_gui.min_angle_tb <= np_abs(angle).v
             /\ np_abs(angle).v <= f_gui.max_angle_tb
       /\ f_gui.depth_gb => (f_gui.min_depth_tb <= z.v /\ z.v <= f_gui.max_depth_tb)
       /\ f_gui.bs_gb =>
             (bs.kind = "num" /\ f_gui.min_bs_tb <= bs.v /\ bs.v <= f_gui.max_bs_tb)
       /\ (f_gui.rtp_angle_gb /\ {"max_port_deg", "max_stbd_deg"} \subseteq DOMAIN d) =>
             /\ angle.v <= d.max_port_deg[p].v + f_gui.rtp_angle_buffer_tb
             /\ angle.v >= 0 - d.max_stbd_deg[p].v - f_gui.rtp_angle_buffer_tb
       /\ (f_gui.rtp_cov_gb /\ {"max_port_m", "max_stbd_m"} \subseteq DOMAIN d) =>
             /\ y.v >= 0 - d.max_port_m[p].v - f_gui.rtp_cov_buffer_tb
             /\ y.v <= d.max_stbd_m[p].v + f_gui.rtp_cov_buffer_tb

LimitsLacking(keys) ==
    \/ ~(keys \subseteq DOMAIN f_det.det)
    \/ \E k \in keys : \E p \in DOMAIN f_det.det[k] : f_det.det[k][p].kind = "str"

\* C13: when a checked runtime filter lacks its limits (keys absent, or a limit stored
\* as 'NA'), the mask is still computed, that filter excludes nothing (the mask is the
\* one computed with the filter unchecked) and a warning is logged.
C13_LackingLimitsPassAll ==
    f_pc # "call" =>
        /\ (f_gui.rtp_angle_gb /\ LimitsLacking({"max_port_deg", "max_stbd_deg"})) =>
              /\ f_pc = "masked"
              /\ "rtp_angle_not_available" \in f_log
              /\ f_filter_idx = filter_idx(f_det.det, f_det.dy_ping, f_det.dz_ping,
                                           [f_gui EXCEPT !.rtp_angle_gb = FALSE])
        /\ (f_gui.rtp_cov_gb /\ LimitsLacking({"max_port_m", "max_stbd_m"})) =>
              /\ f_pc = "masked"
              /\ "rtp_cov_not_available" \in f_log
              /\ f_filter_idx = filter_idx(f_det.det, f_det.dy_ping, f_det.dz_ping,
                                           [f_gui EXCEPT !.rtp_cov_gb = FALSE])

\* C14: the index list of a decimation is strictly increasing and every index lies
\* in [0, count).
C14_IndicesIncreasingInRange ==
    d_pc = "decimated" =>
        /\ \A k \in DOMAIN d_idx_new : 0 <= d_idx_new[k] /\ d_idx_new[k] < d_n_points
        /\ \A k \in 1..(Len(d_idx_new) - 1) : d_idx_new[k] < d_idx_new[k + 1]

\* a decimation by a factor that is not a whole number has kept three or more indices
\* and dropped some
C14_Witness ==
    /\ d_pc = "decimated"
    /\ d_dec_fac.d > 0 /\ d_dec_fac.n > d_dec_fac.d /\ d_dec_fac.n % d_dec_fac.d # 0
    /\ Len(d_idx_new) >= 3 /\ Len(d_idx_new) < d_n_points

\* C15: for every max_points > 0, whole or not, the decimation keeps at most
\* max_points points.
C15_AtMostMaxPoints ==
    (d_pc = "decimated" /\ n_points_max(d_gui).n > 0) =>
        FracLE(Frac(Len(d_idx_new), 1), n_points_max(d_gui))

\* C16: with max_points = 0 the factor is infinite and, for every count, the
\* decimation ends without an exception and keeps no point.
C16_ZeroMaxSelectsNothing ==
    (d_pc # "call" /\ n_points_max(d_gui).n = 0) =>
        /\ d_pc = "decimated"
        /\ d_dec_fac = Frac(1, 0)
        /\ d_idx_new = <<>>

FracEq(a, b) == a.n * b.d = b.n * a.d

\* C17: for max_points > 0 the effective factor is max(count / max_points, user
\* factor), and it is exactly 1 when count <= max_points and the user factor is <= 1.
C17_EffectiveFactor ==
    (d_pc # "call" /\ n_points_max(d_gui).n > 0) =>
        LET ratio == Frac(d_n_points * n_points_max(d_gui).d, n_points_max(d_gui).n)
            user == dec_fac_input(d_gui)
        IN IF FracLE(ratio, Frac(1, 1)) /\ FracLE(user, Frac(1, 1))
           THEN FracEq(d_dec_fac, Frac(1, 1))
           ELSE FracEq(d_dec_fac, FracMax(ratio, user))

\* count = 2 x max_points with a user factor of 1 has given the factor 2
C17_Witness ==
    /\ d_pc = "decimated" /\ d_n_points = 6 /\ d_gui.pt_count_gb
    /\ n_points_max(d_gui) = Frac(6, 2) /\ d_gui.dec_fac_tb = Frac(2, 2)
    /\ FracEq(d_dec_fac, Frac(2, 1))
    /\ Len(d_idx_new) = 3

\* C18: a ping whose cycle time is zero or undefined has a NaN rate, and the call ends
\* without an exception.
C18_NoTimeGivesNaN ==
    r_pc # "call" =>
        /\ r_pc \in {"plotted", "returned"}
        /\ \A i \in DOMAIN r_out.ping_int_time :
              (r_out.ping_int_time[i].kind = "nan" \/ r_out.ping_int_time[i].v.n = 0)
                 => r_out.ping_int_dr[i].kind = "nan"

\* a call has met a ping with cycle time zero next to a ping with a rate
C18_Witness ==
    /\ r_pc = "plotted"
    /\ \E i \in DOMAIN r_out.ping_int_time :
          r_out.ping_int_time[i].kind = "num" /\ r_out.ping_int_time[i].v.n = 0
    /\ \E i \in DOMAIN r_out.ping_int_dr : r_out.ping_int_dr[i].kind = "num"

\* no two consecutive pings differ in time (a single ping, or all timestamps equal)
NoTimeDifference(in) ==
    \A i \in 2..Len(in.time_sorted) : in.time_sorted[i] = in.time_sorted[i - 1]

\* C19: when no ping interval is valid (a single ping, all timestamps equal) the call
\* plots nothing and returns without an exception after reporting that no valid data
\* is there: that no valid time difference is available when every interval is NaN,
\* and otherwise, after the interpolation over the intervals it took for valid, that
\* they could not be fixed or that no valid value is left to plot.
C19_NoValidTimingReported ==
    (r_pc # "call" /\ NoTimeDifference(r_in)) =>
        /\ r_pc = "returned"
        /\ "no_valid_data_rate" \in r_out.log
        /\ IF \A i \in DOMAIN r_out.dt_s_final : r_out.dt_s_final[i].kind = "nan"
           THEN "no_valid_time_differences" \in r_out.log
           ELSE r_out.log \cap {"could_not_fix", "no_valid_values_to_plot"} # {}

\* three pings of one same timestamp were reported as having no valid time difference
C19_Witness ==
    /\ r_pc = "returned"
    /\ Len(r_in.time_sorted) = 3 /\ NoTimeDifference(r_in)
    /\ "no_valid_time_differences" \in r_out.log

\* C20: every ping classified second-swath has a NaN rate of its own, whatever the
\* timestamps, runs of consecutive short intervals included.
C20_SecondSwathHasNoRate ==
    r_pc # "call" =>
        \A i \in DOMAIN r_out.idx_swath_2 :
            r_out.idx_swath_2[i] => r_out.ping_int_dr[i].kind = "nan"

(***************************************************************************)
(* Sorting, removal, the converter and the remaining analyses              *)
(***************************************************************************)
\* C21: after calc_coverage has sorted the table by time, every record of the table
\* holds the field values of one single original ping, records that share a time
\* stamp included.
C21_OnePermutation ==
    (last.op = "calc_coverage" /\ ~raised) =>
        \A r \in Rows(det) :
            \E fname \in AllNames : \E p \in 1..Len(PingsOf(fname)) :
            \E params_only \in BOOLEAN :
                r = DetectionRecord(fname, p, params_only)

\* C22: at most one ConversionWorker runs at any time, and while one runs the Start
\* button stays disabled whatever else the user does.
C22_OneWorkerStartDisabled ==
    ~g_aborted =>
        /\ Cardinality(Running) <= 1
        /\ Running # {} => ~g_btn.convert_btn

\* the table without the records that carry one of the names, every value as it was
WithoutFiles(d, names) ==
    IF "fname" \notin DOMAIN d THEN d
    ELSE [k \in DOMAIN d |->
            [d[k] EXCEPT !.v = DropAt(d[k].v,
                                      {j \in 1..Len(d["fname"].v) : d["fname"].v[j] \in names},
                                      1)]]

\* the values stored under a key, none when the table has no such key
Column(d, k) == IF k \in DOMAIN d THEN d[k].v ELSE <<>>

\* C23: removing selected source files, raw or swath PKL, deletes exactly the records
\* that carry a removed file's name: none of them remains, and every other record
\* keeps its field values, their types and its place among the others.
C23_RemovesExactlyTheFiles ==
    [][ ( /\ handled' # handled
          /\ last'.op \in {"remove_cov_files", "remove_selected_swath_pkl_files"}
          /\ last'.files # <<>> ) =>
            \A k \in DOMAIN det \cup DOMAIN det' :
                Column(det', k) =
                    Column(WithoutFiles(det, {PklSourceName(f) : f \in Range(last'.files)}), k) ]_vars

\* C24: for every ping the standalone converter's process_data_for_plotting selects
\* the beams sortDetectionsCoverage selects, port and starboard.
C24_ConverterSelectsSameBeams ==
    x_pc = "converted" =>
        /\ x_port_idx = x_idx_port
        /\ x_stbd_idx = x_idx_stbd

C26_TrailingWindow ==
    (r_pc = "plotted" /\ r_out.log = {}) =>
        \A i \in DOMAIN r_out.ping_int_dr :
            r_out.dr_smoothed_valid[i] <=>
                \E j \in Valid(r_out.ping_int_dr) :
                    j <= i /\ j > i - Min({100, Len(r_out.ping_int_dr)})

\* the same float: both nan, or equal numbers
SameFloat(a, b) == a.kind = b.kind /\ (a.kind = "num" => FracEq(a.v, b.v))

\* C27: a first-swath ping i has cycle_bytes[i] = bytes[i] + bytes[i+1] and
\* cycle_time[i] = dt[i] + dt[i+1] when ping i+1 is second-swath, bytes[i] and dt[i]
\* otherwise; a second swath's bytes and time are folded into the preceding first-swath
\* ping only, so nothing is folded into a second-swath ping.
C27_CycleSums ==
    r_pc # "call" =>
        LET sw2 == r_out.idx_swath_2
            bytes == r_in.bytes_sorted
            dt == dt_s(r_in.time_sorted)
            n == Len(bytes)
            cycle_bytes == ping_int_bytes(bytes, sw2)
            cycle_time == r_out.ping_int_time
        IN \A i \in 1..n :
              IF ~sw2[i]
              THEN IF i < n /\ sw2[i + 1]
                   THEN /\ cycle_bytes[i] = bytes[i] + bytes[i + 1]
                        /\ SameFloat(cycle_time[i], np_add_frac(dt[i], dt[i + 1]))
                   ELSE /\ cycle_bytes[i] = bytes[i]
                        /\ SameFloat(cycle_time[i], dt[i])
              ELSE /\ cycle_bytes[i] = 0
                   /\ SameFloat(cycle_time[i], Num(Frac(0, 1)))

\* C28: ping i >= 1 of the time-sorted series is second-swath exactly when
\* dt[i] / dt[i-1] < 0.1; ping 0 and every ping whose ratio is undefined (dt[i] or
\* dt[i-1] is NaN, or dt[i-1] is zero) are first-swath.
C28_SecondSwathByRatio ==
    r_pc # "call" =>
        LET dt == dt_s(r_in.time_sorted)
        IN \A i \in DOMAIN dt :
              r_out.idx_swath_2[i] <=>
                  /\ i > 1
                  /\ dt[i].kind = "num" /\ dt[i - 1].kind = "num" /\ dt[i - 1].v.n # 0
                  /\ FracLT(Frac(10 * dt[i].v.n, dt[i].v.d), dt[i - 1].v)

\* the bin of the claim for a depth: the i with edge[i-1] < z <= edge[i], and bin 1
\* for the lower boundary
BinOfClaim(z, z_all) ==
    Max({1, Cardinality({j \in 0..NumBins :
                j * (Max(Values(z_all)) - Min(Values(z_all)))
                    < NumBins * (z - Min(Values(z_all)))})})

\* C29: every sounding is assigned to exactly one of the 10 bins, bin i covering
\* (edge[i-1], edge[i]] and the first bin its lower boundary as well; the soundings at
\* max(z) are counted in the last bin and none is left out.
C29_EverySoundingBinned ==
    t_pc = "binned" =>
        \A k \in DOMAIN t_z_all :
            /\ Cardinality({i \in 1..NumBins : k \in BinMembers(i, t_dig)}) = 1
            /\ k \in BinMembers(BinOfClaim(t_z_all[k], t_z_all), t_dig)

\* C30: for a ping of N >= 1 beams with any validity codes both scans end; every step
\* moves its index by one to a beam of the array (so a scan takes at most N-1 steps,
\* port from 0 upward and stbd from N-1 downward), and the indices read and returned
\* lie in 0..N-1.
C30_ScansEndWithinArray ==
    /\ [](x_pc # "idle" =>
            /\ 0 <= x_idx_port /\ x_idx_port <= Len(x_det_int) - 1
            /\ 0 <= x_idx_stbd /\ x_idx_stbd <= Len(x_det_int) - 1)
    /\ [][ /\ x_idx_port' # x_idx_port =>
                (x_idx_port' = x_idx_port + 1 /\ x_idx_port' <= Len(x_det_int) - 1)
           /\ x_idx_stbd' # x_idx_stbd =>
                (x_idx_stbd' = x_idx_stbd - 1 /\ x_idx_stbd' >= 0) ]_vars
    /\ <>(x_pc \notin {"port", "stbd"})

\* a ping of four beams, all invalid, has been searched: three steps each way
C30_Witness ==
    /\ x_pc = "done"
    /\ x_thr = ThresholdAll
    /\ x_det_int = <<128, 128, 128, 128>>
    /\ x_idx_port = 3
    /\ x_idx_stbd = 0

====
